---- MODULE Spec2Model ----
(***************************************************************************)
(* Model of the PharMe study result analyses.  Each component has its own  *)
(* specification:                                                          *)
(*   SpecTimePoint       filter_results_by_time_point                      *)
(*   SpecScorer          _get_comprehension_result and its analyses        *)
(*   SpecAggregator      get_defined_scores and get_single_score           *)
(*   SpecComparator      create_comparison_plot with assess_difference     *)
(*   SpecNonInferiority  test_non_inferiority_between_study_groups         *)
(*   SpecEffect          interpret_effect                                  *)
(*   SpecMapper          maybe_map_comprehension_data                      *)
(*   SpecLedger          _write_to_results_table                           *)
(*   SpecLedgerDuplicates  the same on a file that holds a key twice         *)
(*   SpecInteresting     get_interesting_comparison_results on the ledger  *)
(*   SpecProgress        maybe_combine_progress_data_and_clean_surveys     *)
(*   SpecAnalysis        analyze_comprehension                             *)
(* Its Init draws the component's inputs from bounded sets and its actions *)
(* are the component's code paths.  The variables of the components that   *)
(* do not run are parked at Idle and left unchanged.                       *)
(***************************************************************************)
EXTENDS Integers, Sequences, FiniteSets, TLC

VARIABLES
    component,          \* which component this behaviour runs
    \* ---- time-point resolver (survey_results/get_data.py) ----
    survey_results,     \* the survey file: sequence of rows
    progress_data,      \* PROGRESS_DATA_FILE: sequence of rows
    time_point,         \* the requested TimePoint (its index 0, 1, 2)
    pending,            \* participant ids the for-loop still has to visit
    current_row,        \* current_row counter of the loop
    time_point_data,    \* the table being assembled
    warnings,           \* participants the "not loaded yet" warning named
    tp_status,          \* "running" | "returned" | "raised"
    \* ---- comprehension scorer (survey_results/comprehension.py) ----
    redcap_data,        \* REDCAP_DATA_FILE: participant -> study group
    participant,        \* the participant being scored and their ground truth
    comprehension_log,  \* COMPREHENSION_LOG_FILE, rows after the header
    secret_log,         \* SECRET_COMPREHENSION_LOG_FILE, rows after the header
    call,               \* the analysis that ran: column, answer, outcome
    \* ---- score aggregator (get_defined_scores) ----
    survey,             \* the Survey whose answers are scored
    definitions,        \* the survey's definition table: sequence of question rows
    data,               \* the survey result rows to score
    data_row,           \* rows of data already visited
    score_data,         \* the score rows collected so far
    score_status,       \* "running" | "returned" | the error raised
    \* ---- statistical comparator (create_comparison_plot) ----
    plot,               \* the arguments of create_comparison_plot
    assessed,           \* what assessing the difference gave: the result or the error
    \* ---- non-inferiority test (test_non_inferiority_between_study_groups) ----
    control_group_data, \* the Counseling scores
    samples_are_normal, \* whether the Shapiro-Wilk check passes for the groups
    runs,               \* the PharMe scores tested so far and what each test returned
    \* ---- effect interpreter (utils/statistics.py interpret_effect) ----
    effect_method,      \* the effect measure's name
    effect,             \* the effect size: nan or thousandths
    interpretation,     \* "pending" | the EffectInterpretation | "Exception"
    \* ---- paired time-point comparisons (utils/statistics.py) ----
    first_data,         \* the first time point's table: rows of participant and value
    second_data,        \* the second time point's table
    study_group,        \* the StudyGroup the comparison is for
    paired,             \* the comparison that ran: series compared and outcome
    \* ---- comprehension mapper (maybe_map_comprehension_data) ----
    explicit_results,   \* the normalized questionnaire data: rows of participant and answer
    comprehension_data, \* COMPREHENSION_DATA: PharMe id -> ground truth
    stored_results,     \* the scored output file: None or the table
    stored_input,       \* the questionnaire data the stored output was scored from
    map_runs,           \* the runs so far: input, path taken, files and warnings after
    \* ---- comprehension analysis (analyses/comprehension.py analyze_comprehension) ----
    comprehension_results,\* the comprehension rows of the time point: sequence of rows
    drop_questions,     \* the questions to leave out of the score
    next_row,           \* the row the loop visits next
    participant_scores, \* the [participant, score] rows collected so far
    wrong_answers,      \* the [participant, question, answer] rows collected so far
    no_group_warnings,  \* participants the "No study group" warning named
    analysis,           \* how the call ended and what it wrote and returned
    \* ---- progress combiner and survey cleaner (survey_results/progress.py) ----
    baseline_progress_data,\* BASELINE_SURVEY_PROGRESS_FILE: sequence of rows
    pharme_progress_data,\* PHARME_GROUP_SURVEY_PROGRESS_FILE: sequence of rows
    counseling_progress_data,\* COUNSELING_GROUP_SURVEY_PROGRESS_FILE: sequence of rows
    manual_time_point_overwrites,\* MANUAL_PROGRESS_DATA: participant -> column -> value
    progress_file,      \* PROGRESS_DATA_FILE as written, or NoProgressFile
    survey_file,        \* the preprocessed survey file: sequence of rows
    cleaned,            \* what the call did: its arguments, outcome and PROGRESS_CLEANING_LOG
    \* ---- reader of the interesting results (get_interesting_comparison_results) ----
    interesting,        \* what reading the ledger for one comparison gave
    \* ---- comparison result ledger (_write_to_results_table) ----
    results_table,      \* RESULTS_TABLE_FILE: whether it exists and its CSV rows
    ledger_warnings,    \* the keys the "Found multiple rows" warning named
    upserts             \* the upserts made so far, in order

tp_vars == <<survey_results, progress_data, time_point, pending, current_row, time_point_data, warnings, tp_status>>

sc_vars == <<redcap_data, participant, comprehension_log, secret_log, call>>

ag_vars == <<survey, definitions, data, data_row, score_data, score_status>>

cp_vars == <<plot, assessed>>

ni_vars == <<control_group_data, samples_are_normal, runs>>

ef_vars == <<effect_method, effect, interpretation>>

pr_vars == <<first_data, second_data, study_group, paired>>

mp_vars == <<explicit_results, comprehension_data, stored_results, stored_input, map_runs>>

ac_vars == <<comprehension_results, drop_questions, next_row, participant_scores, wrong_answers, no_group_warnings, analysis>>

pg_vars == <<baseline_progress_data, pharme_progress_data, counseling_progress_data, manual_time_point_overwrites, progress_file, survey_file, cleaned>>

ir_vars == <<interesting>>

lg_vars == <<results_table, ledger_warnings, upserts>>

vars == <<component, tp_vars, sc_vars, ag_vars, cp_vars, ni_vars, ef_vars, pr_vars, mp_vars, ac_vars, pg_vars, ir_vars, lg_vars>>

Idle == "idle"
NULL == "NaN"

\* a component that does not run keeps its variables parked
TpIdle == survey_results = Idle /\ progress_data = Idle /\ time_point = Idle /\ pending = Idle /\ current_row = Idle /\ time_point_data = Idle /\ warnings = Idle /\ tp_status = Idle

ScIdle == redcap_data = Idle /\ participant = Idle /\ comprehension_log = Idle /\ secret_log = Idle /\ call = Idle

AgIdle == survey = Idle /\ definitions = Idle /\ data = Idle /\ data_row = Idle /\ score_data = Idle /\ score_status = Idle

CpIdle == plot = Idle /\ assessed = Idle

NiIdle == control_group_data = Idle /\ samples_are_normal = Idle /\ runs = Idle

EfIdle == effect_method = Idle /\ effect = Idle /\ interpretation = Idle

PrIdle == first_data = Idle /\ second_data = Idle /\ study_group = Idle /\ paired = Idle

MpIdle == explicit_results = Idle /\ comprehension_data = Idle /\ stored_results = Idle /\ stored_input = Idle /\ map_runs = Idle

AcIdle == comprehension_results = Idle /\ drop_questions = Idle /\ next_row = Idle /\ participant_scores = Idle /\ wrong_answers = Idle /\ no_group_warnings = Idle /\ analysis = Idle

PgIdle == baseline_progress_data = Idle /\ pharme_progress_data = Idle /\ counseling_progress_data = Idle /\ manual_time_point_overwrites = Idle /\ progress_file = Idle /\ survey_file = Idle /\ cleaned = Idle

IrIdle == interesting = Idle

LgIdle == results_table = Idle /\ ledger_warnings = Idle /\ upserts = Idle

\* a component touches nothing of the other components
TpOthersIdle == ScIdle /\ AgIdle /\ CpIdle /\ NiIdle /\ EfIdle /\ PrIdle /\ MpIdle /\ AcIdle /\ PgIdle /\ IrIdle /\ LgIdle

TpFrame == UNCHANGED <<component, sc_vars, ag_vars, cp_vars, ni_vars, ef_vars, pr_vars, mp_vars, ac_vars, pg_vars, ir_vars, lg_vars>>

ScOthersIdle == TpIdle /\ AgIdle /\ CpIdle /\ NiIdle /\ EfIdle /\ PrIdle /\ MpIdle /\ AcIdle /\ PgIdle /\ IrIdle /\ LgIdle

ScFrame == UNCHANGED <<component, tp_vars, ag_vars, cp_vars, ni_vars, ef_vars, pr_vars, mp_vars, ac_vars, pg_vars, ir_vars, lg_vars>>

AgOthersIdle == TpIdle /\ ScIdle /\ CpIdle /\ NiIdle /\ EfIdle /\ PrIdle /\ MpIdle /\ AcIdle /\ PgIdle /\ IrIdle /\ LgIdle

AgFrame == UNCHANGED <<component, tp_vars, sc_vars, cp_vars, ni_vars, ef_vars, pr_vars, mp_vars, ac_vars, pg_vars, ir_vars, lg_vars>>

CpOthersIdle == TpIdle /\ ScIdle /\ data_row = Idle /\ score_data = Idle /\ score_status = Idle /\ NiIdle /\ EfIdle /\ PrIdle /\ MpIdle /\ AcIdle /\ PgIdle /\ IrIdle /\ upserts = Idle

CpFrame == UNCHANGED <<component, tp_vars, sc_vars, data_row, score_data, score_status, ni_vars, ef_vars, pr_vars, mp_vars, ac_vars, pg_vars, ir_vars, upserts>>

NiOthersIdle == TpIdle /\ ScIdle /\ AgIdle /\ CpIdle /\ EfIdle /\ PrIdle /\ MpIdle /\ AcIdle /\ PgIdle /\ IrIdle /\ LgIdle

NiFrame == UNCHANGED <<component, tp_vars, sc_vars, ag_vars, cp_vars, ef_vars, pr_vars, mp_vars, ac_vars, pg_vars, ir_vars, lg_vars>>

EfOthersIdle == TpIdle /\ ScIdle /\ AgIdle /\ CpIdle /\ NiIdle /\ PrIdle /\ MpIdle /\ AcIdle /\ PgIdle /\ IrIdle /\ LgIdle

EfFrame == UNCHANGED <<component, tp_vars, sc_vars, ag_vars, cp_vars, ni_vars, pr_vars, mp_vars, ac_vars, pg_vars, ir_vars, lg_vars>>

PrOthersIdle == TpIdle /\ participant = Idle /\ comprehension_log = Idle /\ secret_log = Idle /\ call = Idle /\ AgIdle /\ CpIdle /\ NiIdle /\ EfIdle /\ MpIdle /\ AcIdle /\ PgIdle /\ IrIdle /\ LgIdle

PrFrame == UNCHANGED <<component, tp_vars, participant, comprehension_log, secret_log, call, ag_vars, cp_vars, ni_vars, ef_vars, mp_vars, ac_vars, pg_vars, ir_vars, lg_vars>>

MpOthersIdle == TpIdle /\ participant = Idle /\ call = Idle /\ AgIdle /\ CpIdle /\ NiIdle /\ EfIdle /\ PrIdle /\ AcIdle /\ PgIdle /\ IrIdle /\ LgIdle

MpFrame == UNCHANGED <<component, tp_vars, participant, call, ag_vars, cp_vars, ni_vars, ef_vars, pr_vars, ac_vars, pg_vars, ir_vars, lg_vars>>

AcOthersIdle == TpIdle /\ participant = Idle /\ comprehension_log = Idle /\ secret_log = Idle /\ call = Idle /\ AgIdle /\ CpIdle /\ NiIdle /\ EfIdle /\ PrIdle /\ MpIdle /\ PgIdle /\ IrIdle /\ LgIdle

AcFrame == UNCHANGED <<component, tp_vars, participant, comprehension_log, secret_log, call, ag_vars, cp_vars, ni_vars, ef_vars, pr_vars, mp_vars, pg_vars, ir_vars, lg_vars>>

PgOthersIdle == TpIdle /\ ScIdle /\ AgIdle /\ CpIdle /\ NiIdle /\ EfIdle /\ PrIdle /\ MpIdle /\ AcIdle /\ IrIdle /\ LgIdle

PgFrame == UNCHANGED <<component, tp_vars, sc_vars, ag_vars, cp_vars, ni_vars, ef_vars, pr_vars, mp_vars, ac_vars, ir_vars, lg_vars>>

IrOthersIdle == TpIdle /\ ScIdle /\ AgIdle /\ CpIdle /\ NiIdle /\ EfIdle /\ PrIdle /\ MpIdle /\ AcIdle /\ PgIdle

IrFrame == UNCHANGED <<component, tp_vars, sc_vars, ag_vars, cp_vars, ni_vars, ef_vars, pr_vars, mp_vars, ac_vars, pg_vars>>

LgOthersIdle == TpIdle /\ ScIdle /\ AgIdle /\ CpIdle /\ NiIdle /\ EfIdle /\ PrIdle /\ MpIdle /\ AcIdle /\ PgIdle /\ IrIdle

LgFrame == UNCHANGED <<component, tp_vars, sc_vars, ag_vars, cp_vars, ni_vars, ef_vars, pr_vars, mp_vars, ac_vars, pg_vars, ir_vars>>

(***************************************************************************)
(* Generic helpers                                                         *)
(***************************************************************************)
Range(s) == {s[i] : i \in DOMAIN s}

SeqsUpTo(S, n) == UNION {[1..k -> S] : k \in 0..n}

\* pandas Series.unique(): the distinct values in order of first appearance
RECURSIVE Unique(_)
Unique(s) ==
    IF s = <<>> THEN <<>>
    ELSE LET init == Unique(SubSeq(s, 1, Len(s) - 1))
             last == s[Len(s)]
         IN  IF last \in Range(init) THEN init ELSE Append(init, last)

(***************************************************************************)
(* Time-point resolver: filter_results_by_time_point                       *)
(***************************************************************************)
MaxRows == 3            \* rows in the survey file

Participants == {"p1", "p2"}
TimeMarkers == {1, 2}                   \* authored_at_gmt values
TimePointIndices == <<0, 1, 2>>         \* TimePoint enum, in definition order
TimePoints == Range(TimePointIndices)
DATE == "2024-01-01"                    \* a non-null progress cell

\* a survey row: participant, time marker and the row's own content
SurveyRow(p, t, k) == [participant_id |-> p, authored_at_gmt |-> t, answers |-> k]

SurveyTables ==
    {[i \in DOMAIN s |-> SurveyRow(s[i][1], s[i][2], i)] :
        s \in SeqsUpTo(Participants \X TimeMarkers, MaxRows)}

ProgressRows ==
    [participant_id : Participants, cells : [TimePoints -> {NULL, DATE}]]

\* up to one row per participant, or a participant listed twice
ProgressTables == SeqsUpTo(ProgressRows, Cardinality(Participants))

\* value_is_nan(value): value != value
value_is_nan(value) == value = NULL

\* progress_data[progress_data[PARTICIPANT_ID] == participant_id][column].array
ProgressCells(participant_id, tp) ==
    LET idx == {i \in DOMAIN progress_data :
                   progress_data[i].participant_id = participant_id}
        RECURSIVE Cells(_)
        Cells(i) == IF i > Len(progress_data) THEN <<>>
                    ELSE (IF i \in idx THEN <<progress_data[i].cells[tp]>> ELSE <<>>)
                         \o Cells(i + 1)
    IN  Cells(1)

\* _participant_completed_survey raises unless exactly one cell is selected
CompletedRaises(participant_id, tp) == Len(ProgressCells(participant_id, tp)) # 1

CompletedWithNullAsDone(participant_id, tp) == TRUE

\* _participant_completed_survey: not value_is_nan(progress_time_point[0])
ParticipantCompletedSurvey(participant_id, tp) ==
    ~value_is_nan(ProgressCells(participant_id, tp)[1])

\* survey_results[survey_results[PARTICIPANT_ID] == participant_id]
ParticipantRows(participant_id) ==
    LET RECURSIVE Rows(_)
        Rows(i) == IF i > Len(survey_results) THEN <<>>
                   ELSE (IF survey_results[i].participant_id = participant_id
                         THEN <<survey_results[i]>> ELSE <<>>) \o Rows(i + 1)
    IN  Rows(1)

\* .sort_values(TIME_POINT): every arrangement of the rows in ascending
\* authored_at_gmt; the default sort is not stable, so rows with equal time
\* markers may come out in any order
SortedByTime(rows) ==
    {s \in [1..Len(rows) -> Range(rows)] :
        /\ \A i, j \in 1..Len(rows) : i # j => s[i] # s[j]
        /\ \A i \in 1..(Len(rows) - 1) :
              s[i].authored_at_gmt <= s[i + 1].authored_at_gmt}

\* number of TimePoints before tp (enum order) the participant did not complete
RECURSIVE EarlierMissing(_, _, _)
EarlierMissing(participant_id, tp, i) ==
    IF i > Len(TimePointIndices) \/ TimePointIndices[i] = tp THEN 0
    ELSE (IF ParticipantCompletedSurvey(participant_id, TimePointIndices[i])
          THEN 0 ELSE 1)
         + EarlierMissing(participant_id, tp, i + 1)

AdjustedIndexNoCompensation(participant_id, tp) == tp

\* time_point_index after the loop over the other time points
AdjustedIndex(participant_id, tp) ==
    tp - EarlierMissing(participant_id, tp, 1)

InitTimePoint ==
    /\ component = "time_point"
    /\ TpOthersIdle
    /\ survey_results \in SurveyTables
    /\ progress_data \in ProgressTables
    /\ time_point \in TimePoints
    /\ pending = Unique([i \in DOMAIN survey_results |->
                            survey_results[i].participant_id])
    /\ current_row = 0
    /\ time_point_data = <<>>
    /\ warnings = <<>>
    /\ tp_status = "running"

Visiting == tp_status = "running" /\ pending # <<>>

NextParticipant ==
    /\ pending' = Tail(pending)
    /\ TpFrame
    /\ UNCHANGED <<survey_results, progress_data, time_point>>

\* a participant without exactly one progress row passed over
NotUniqueIsSkipped ==
    /\ Visiting
    /\ CompletedRaises(Head(pending), time_point)
    /\ NextParticipant
    /\ UNCHANGED <<current_row, time_point_data, warnings, tp_status>>

\* the progress file does not hold exactly one row of the participant
RaiseNotUnique ==
    /\ Visiting
    /\ CompletedRaises(Head(pending), time_point)
    /\ tp_status' = "raised"
    /\ TpFrame
    /\ UNCHANGED <<survey_results, progress_data, time_point,
                   pending, current_row, time_point_data, warnings>>

\* time_point_missing: continue
SkipMissing ==
    /\ Visiting
    /\ ~CompletedRaises(Head(pending), time_point)
    /\ ~ParticipantCompletedSurvey(Head(pending), time_point)
    /\ NextParticipant
    /\ UNCHANGED <<current_row, time_point_data, warnings, tp_status>>

WarnNotLoadedIsFatal ==
    /\ Visiting
    /\ ~CompletedRaises(Head(pending), time_point)
    /\ ParticipantCompletedSurvey(Head(pending), time_point)
    /\ AdjustedIndex(Head(pending), time_point)
          > Len(ParticipantRows(Head(pending))) - 1
    /\ tp_status' = "raised"
    /\ TpFrame
    /\ UNCHANGED <<survey_results, progress_data, time_point,
                   pending, current_row, time_point_data, warnings>>

\* time_point_index > len(participant_data.index) - 1: warn and continue
WarnNotLoaded ==
    /\ Visiting
    /\ ~CompletedRaises(Head(pending), time_point)
    /\ ParticipantCompletedSurvey(Head(pending), time_point)
    /\ AdjustedIndex(Head(pending), time_point)
          > Len(ParticipantRows(Head(pending))) - 1
    /\ warnings' = Append(warnings, Head(pending))
    /\ NextParticipant
    /\ UNCHANGED <<current_row, time_point_data, tp_status>>

\* time_point_data.loc[current_row] = participant_data.iloc[time_point_index]
SelectRow ==
    /\ Visiting
    /\ ~CompletedRaises(Head(pending), time_point)
    /\ ParticipantCompletedSurvey(Head(pending), time_point)
    /\ AdjustedIndex(Head(pending), time_point)
          <= Len(ParticipantRows(Head(pending))) - 1
    /\ \E participant_data \in SortedByTime(ParticipantRows(Head(pending))) :
          time_point_data' =
              Append(time_point_data,
                     participant_data[AdjustedIndex(Head(pending), time_point) + 1])
    /\ current_row' = current_row + 1
    /\ NextParticipant
    /\ UNCHANGED <<warnings, tp_status>>

ReturnTable ==
    /\ tp_status = "running"
    /\ pending = <<>>
    /\ tp_status' = "returned"
    /\ TpFrame
    /\ UNCHANGED <<survey_results, progress_data, time_point,
                   pending, current_row, time_point_data, warnings>>

NextTimePoint ==
    \/ RaiseNotUnique
    \/ SkipMissing
    \/ WarnNotLoaded
    \/ SelectRow
    \/ ReturnTable

SpecTimePoint == InitTimePoint /\ [][NextTimePoint]_vars

(***************************************************************************)
(* Claims on the time-point resolver                                       *)
(***************************************************************************)
\* C1: a participant whose progress cell for the requested time point is
\* null has no row in the table, whatever rows they have in the survey and
\* whatever their other progress cells hold.
C1_NullCellNoRow ==
    \A p \in Participants :
        (\E i \in DOMAIN progress_data :
            /\ progress_data[i].participant_id = p
            /\ progress_data[i].cells[time_point] = NULL)
        => \A k \in DOMAIN time_point_data :
               time_point_data[k].participant_id # p

\* a returned table, a participant with survey rows and other completed time
\* points whose requested cell is null, and another participant selected
C1_Witness ==
    /\ tp_status = "returned"
    /\ time_point_data # <<>>
    /\ \E p \in Participants :
          /\ \E i \in DOMAIN survey_results :
                survey_results[i].participant_id = p
          /\ \E i \in DOMAIN progress_data :
                /\ progress_data[i].participant_id = p
                /\ progress_data[i].cells[time_point] = NULL
                /\ \E tp \in TimePoints : progress_data[i].cells[tp] # NULL

\* C2: the row returned for a participant is one of their own survey rows
\* and stands at position i - k of their rows in ascending time order, i the
\* ordinal of the requested time point and k the number of earlier time
\* points whose progress cell is null.
C2_RowAtAdjustedPosition ==
    \A n \in DOMAIN time_point_data :
        LET r == time_point_data[n]
            p == r.participant_id
            own == {i \in DOMAIN survey_results :
                       survey_results[i].participant_id = p}
            before == {i \in own :
                          survey_results[i].authored_at_gmt < r.authored_at_gmt}
            upto == {i \in own :
                        survey_results[i].authored_at_gmt <= r.authored_at_gmt}
        IN  /\ \E i \in own : survey_results[i] = r
            /\ \E j \in DOMAIN progress_data :
                  /\ progress_data[j].participant_id = p
                  /\ progress_data[j].cells[time_point] # NULL
                  /\ LET k == Cardinality({tp \in TimePoints :
                                  /\ tp < time_point
                                  /\ progress_data[j].cells[tp] = NULL})
                     IN  /\ Cardinality(before) <= time_point - k
                         /\ time_point - k < Cardinality(upto)

\* progress {T0 complete, T30 null, T90 complete}, two physical rows with
\* distinct time markers, T90 requested: the later row was returned
C2_Witness ==
    /\ tp_status = "returned"
    /\ time_point = 2
    /\ \E n \in DOMAIN time_point_data :
          LET r == time_point_data[n]
              p == r.participant_id
          IN  /\ Len(ParticipantRows(p)) = 2
              /\ r.authored_at_gmt = 2
              /\ \E i \in DOMAIN survey_results :
                    /\ survey_results[i].participant_id = p
                    /\ survey_results[i].authored_at_gmt = 1
              /\ \E j \in DOMAIN progress_data :
                    /\ progress_data[j].participant_id = p
                    /\ progress_data[j].cells[0] # NULL
                    /\ progress_data[j].cells[1] = NULL
                    /\ progress_data[j].cells[2] # NULL

\* C3: a completed time point whose adjusted index is not below the number
\* of physical rows gives a warning and no row, and never a failure; the
\* returned table holds exactly one row for every other participant who
\* completed the time point and has a row at the adjusted index, and no row
\* for anyone else.
C3_WarnAndSkip ==
    LET own(p) == {i \in DOMAIN survey_results :
                      survey_results[i].participant_id = p}
        cell(p, tp) == progress_data[CHOOSE j \in DOMAIN progress_data :
                           progress_data[j].participant_id = p].cells[tp]
        adjusted(p) == time_point - Cardinality({tp \in TimePoints :
                           tp < time_point /\ cell(p, tp) = NULL})
        selected(p) == {n \in DOMAIN time_point_data :
                           time_point_data[n].participant_id = p}
        warned(p) == {n \in DOMAIN warnings : warnings[n] = p}
        unique(p) == Cardinality({j \in DOMAIN progress_data :
                           progress_data[j].participant_id = p}) = 1
    IN  /\ tp_status = "raised" => ~unique(Head(pending))
        /\ tp_status = "returned" =>
              \A p \in Participants :
                 IF own(p) = {} THEN selected(p) = {} /\ warned(p) = {}
                 ELSE /\ unique(p)
                      /\ IF cell(p, time_point) = NULL
                         THEN selected(p) = {} /\ warned(p) = {}
                         ELSE IF adjusted(p) < Cardinality(own(p))
                         THEN Cardinality(selected(p)) = 1 /\ warned(p) = {}
                         ELSE selected(p) = {} /\ Cardinality(warned(p)) = 1

\* a returned table with one participant warned about and another selected
C3_Witness ==
    /\ tp_status = "returned"
    /\ warnings # <<>>
    /\ time_point_data # <<>>

(***************************************************************************)
(* Comprehension scorer: survey_results/comprehension.py                   *)
(***************************************************************************)
\* StudyGroup enum values; a participant not yet randomised has NaN
StudyGroups == {"PharMe", "Counseling"}

DPYD_INDETERMINATE_CASTS == {"PharMe1060"}
ONLY_GENOTYPE_ADAPTIONS_COMMUNICATED == [id \in {"PharMe3397"} |-> "CYP2C19"]
ALSO_PHENOTYPE_ADAPTIONS_COMMUNICATED == [id \in {} |-> ""]
MISSING_GENE_QUESTION == "missing gene"

\* a phenotype is its words in order: "Normal Metabolizer" is
\* <<"Normal", "Metabolizer">>, so that split(" ")[0] is its first word
Indeterminate == <<"Indeterminate">>
Metabolizer(kind) == <<kind, "Metabolizer">>
Function(kind) == <<kind, "Function">>

\* str.lower() on the words the model uses
LowerWord(w) ==
    CASE w = "Indeterminate" -> "indeterminate"
      [] w = "Ultrarapid" -> "ultrarapid"
      [] w = "Rapid" -> "rapid"
      [] w = "Normal" -> "normal"
      [] w = "Intermediate" -> "intermediate"
      [] w = "Poor" -> "poor"
      [] w = "Increased" -> "increased"
      [] w = "Decreased" -> "decreased"
      [] w = "Metabolizer" -> "metabolizer"
      [] w = "Function" -> "function"
      [] OTHER -> w

Lower(words) == [i \in DOMAIN words |-> LowerWord(words[i])]

\* the genes of a ground-truth record and the gene the test does not cover
Genes == {"CYP2C9", "CYP2C19", "SLCO1B1", "DPYD"}
actual_missing_gene == "MTHFR"

Medications == {"ibuprofen", "simvastatin", "citalopram", "clopidogrel"}

medication_at_standard_dose_phenotypes ==
    [m \in Medications |->
        CASE m = "ibuprofen" ->
               [gene |-> "CYP2C9",
                phenotypes |-> {Metabolizer("Normal"), Metabolizer("Intermediate"),
                                Indeterminate}]
          [] m = "simvastatin" ->
               [gene |-> "SLCO1B1",
                phenotypes |-> {Function("Increased"), Function("Normal"),
                                Indeterminate}]
          [] m = "citalopram" ->
               [gene |-> "CYP2C19",
                phenotypes |-> {Metabolizer("Rapid"), Metabolizer("Normal"),
                                Metabolizer("Intermediate"), Indeterminate}]
          [] m = "clopidogrel" ->
               [gene |-> "CYP2C19",
                phenotypes |-> {Indeterminate, Metabolizer("Ultrarapid"),
                                Metabolizer("Rapid"), Metabolizer("Normal")}]]

\* a table that answers every genotype, unknown ones with the normal score
ActivityScoresWithDefault ==
    [g \in {"*1/*1", "*1/*2", "*1/*3", "*1/*11", "*2/*2", "*2/*3", "*3/*3", "*1/*8"} |->
        "2.0"]

\* genotype -> activity score, as the f-string prints it
cyp2c9_activity_scores ==
    [g \in {"*1/*1", "*1/*2", "*1/*3", "*1/*11", "*2/*2", "*2/*3", "*3/*3"} |->
        CASE g = "*1/*1" -> "2.0"
          [] g = "*1/*2" -> "1.5"
          [] g = "*1/*3" -> "1.0"
          [] g = "*1/*11" -> "1.5"
          [] g = "*2/*2" -> "1.0"
          [] g = "*2/*3" -> "0.5"
          [] g = "*3/*3" -> "0.0"]

\* the question columns: a phenotype question ends in the gene and a colon,
\* a medication question wraps the medication in a fixed sentence
PhenotypeQuestion(gene) == <<"phenotype", gene, ":">>
MedicationPrefix ==
    "According to your PGx test result, if you ever needed to take the medication "
MedicationSuffix == ", could you take it at standard dosage?"
MedicationQuestion(m) == <<MedicationPrefix, m, MedicationSuffix>>
MissingGeneColumn ==
    <<"Which of the following genes is not included in your PGx test results?">>

\* _get_comprehension_columns(): positions 0..13 are elements 1..14
comprehension_columns ==
    << <<"participant_id">>, <<"authored_at_gmt">>, <<"score">>,
       <<"self-reported understanding">>,
       <<"static question 1">>, <<"static question 2">>,
       MissingGeneColumn,
       PhenotypeQuestion("CYP2C9"), MedicationQuestion("ibuprofen"),
       PhenotypeQuestion("SLCO1B1"), MedicationQuestion("simvastatin"),
       PhenotypeQuestion("CYP2C19"), MedicationQuestion("citalopram"),
       MedicationQuestion("clopidogrel") >>

Column(position) == comprehension_columns[position + 1]

static_answer_columns == {Column(4), Column(5)}
missing_gene_column == Column(6)
phenotype_answer_columns == {Column(7), Column(9), Column(11)}
medication_answer_columns == {Column(8), Column(10), Column(12), Column(13)}

\* question.split(" ")[-1].replace(":", ""): the last word without its colon
get_gene_from_question(question) ==
    LET parts == [i \in 1..Len(question) |-> question[i]]
        kept == {i \in DOMAIN parts : parts[i] # ":"}
    IN  parts[CHOOSE i \in kept : \A j \in kept : j <= i]

\* the question with the two fixed parts of the sentence replaced by ""
get_medication_from_question(question) ==
    LET kept == {i \in DOMAIN question :
                    question[i] \notin {MedicationPrefix, MedicationSuffix}}
    IN  question[CHOOSE i \in kept : TRUE]

\* get_study_group(participant_id): the StudyGroup, or None for NaN
get_study_group(participant_id) == redcap_data[participant_id]

\* _write_preprocessing_log: get_study_group(participant_id).value is read
\* before either file is opened; on None it raises AttributeError
WritePreprocessingLog(question, answer, notes, participant_id) ==
    IF get_study_group(participant_id) = NULL
    THEN [raised |-> "AttributeError", row |-> <<>>, secret |-> <<>>]
    ELSE [raised |-> "",
          row |-> <<[study_group |-> get_study_group(participant_id),
                     question |-> question, answer |-> answer, notes |-> notes]>>,
          secret |-> <<participant_id>>]

\* the outcome of an analysis: what it returned (or raised) and what it logged
Returned(result) == [result |-> result, row |-> <<>>, secret |-> <<>>]
Logged(result, written) ==
    [result |-> IF written.raised # "" THEN written.raised ELSE result,
     row |-> written.row, secret |-> written.secret]

\* _get_static_answer
GetStaticAnswer(participant_answer) ==
    Returned(IF participant_answer = "yes" THEN "True" ELSE "False")

\* _analyze_missing_gene
AnalyzeMissingGene(participant_id, participant_answer, participant_genes, pharme_id) ==
    IF participant_answer = actual_missing_gene THEN Returned("True")
    ELSE IF Lower(participant_genes[participant_answer].phenotype)
               = <<"indeterminate">>
    THEN Logged("True",
                WritePreprocessingLog(MISSING_GENE_QUESTION, participant_answer,
                    <<"Overwriting to true because Indeterminate">>,
                    participant_id))
    ELSE IF participant_answer = "DPYD" /\ pharme_id \in DPYD_INDETERMINATE_CASTS
    THEN Logged("True",
                WritePreprocessingLog(MISSING_GENE_QUESTION, participant_answer,
                    <<"Overwriting to true because Indeterminate (incomplete preprocessing)">>,
                    participant_id))
    ELSE LET result_adaptions_communicated ==
                 ALSO_PHENOTYPE_ADAPTIONS_COMMUNICATED
                     @@ ONLY_GENOTYPE_ADAPTIONS_COMMUNICATED
             wrong_answer_message ==
                 <<participant_answer>>
                     \o participant_genes[participant_answer].phenotype
             simplified ==
                 /\ pharme_id \in DOMAIN result_adaptions_communicated
                 /\ participant_answer = result_adaptions_communicated[pharme_id]
         IN  Logged("False",
                    WritePreprocessingLog(MISSING_GENE_QUESTION, participant_answer,
                        IF simplified
                        THEN wrong_answer_message \o
                             <<"; participant selected a gene that was simplified in PharMe">>
                        ELSE wrong_answer_message,
                        participant_id))

\* _analyze_phenotype_answer
AnalyzePhenotypeAnswer(participant_id, column, participant_answer, participant_genes) ==
    LET gene == get_gene_from_question(column)
        actual_phenotype == LowerWord(participant_genes[gene].phenotype[1])
    IN  IF participant_answer = actual_phenotype THEN Returned("True")
        ELSE IF participant_id \in DOMAIN ALSO_PHENOTYPE_ADAPTIONS_COMMUNICATED
        THEN Returned("TypeError")  \* the map is indexed by the genes dict
        ELSE Logged("False",
                    WritePreprocessingLog(gene, participant_answer,
                        <<gene>> \o participant_genes[gene].phenotype,
                        participant_id))

\* _analyze_medication_answer
AnalyzeMedicationAnswer(participant_id, column, participant_answer, participant_data) ==
    LET medication == get_medication_from_question(column)
        medication_standard_dose_data ==
            medication_at_standard_dose_phenotypes[medication]
        medication_gene == medication_standard_dose_data.gene
        standard_dose_phenotypes == medication_standard_dose_data.phenotypes
        participant_genes == participant_data.genes
        participant_phenotype == participant_genes[medication_gene].phenotype
        correct_answer ==
            IF participant_phenotype \in standard_dose_phenotypes
            THEN "yes" ELSE "no"
        participant_genotype == participant_genes[medication_gene].genotype
        participant_result_details ==
            IF medication_gene = "CYP2C9"
            THEN participant_phenotype
                     \o <<"(", cyp2c9_activity_scores[participant_genotype], ")">>
            ELSE participant_phenotype
        \* json.loads of the string-encoded boolean
        participant_on_medication == participant_data.medications[medication] = "true"
    IN  IF participant_answer = correct_answer THEN Returned("True")
        ELSE IF /\ medication_gene = "CYP2C9"
                /\ participant_genotype \notin DOMAIN cyp2c9_activity_scores
        THEN Returned("Exception")
        ELSE Logged("False",
                    WritePreprocessingLog(medication, participant_answer,
                        IF participant_on_medication
                        THEN <<medication_gene>> \o participant_result_details \o
                             <<"; patient is taking medication, check if counseling needed">>
                        ELSE <<medication_gene>> \o participant_result_details,
                        participant_id))

\* _get_comprehension_result: the analysis a column position selects
GetComprehensionResult(participant_id, pharme_id, participant_answer, participant_data, column) ==
    IF column \in static_answer_columns
    THEN GetStaticAnswer(participant_answer)
    ELSE IF column = missing_gene_column
    THEN AnalyzeMissingGene(participant_id, participant_answer,
                            participant_data.genes, pharme_id)
    ELSE IF column \in phenotype_answer_columns
    THEN AnalyzePhenotypeAnswer(participant_id, column, participant_answer,
                                participant_data.genes)
    ELSE IF column \in medication_answer_columns
    THEN AnalyzeMedicationAnswer(participant_id, column, participant_answer,
                                 participant_data)
    ELSE Returned(participant_answer)

(* ---- inputs ---- *)
ScoredParticipant == "p1"
PharmeIds == {"PharMe1060", "PharMe3397", "PharMe0001"}

GroundTruthRecords ==
    {[genes |-> [g \in Genes |->
                    CASE g = "CYP2C9" -> [genotype |-> gt, phenotype |-> c9]
                      [] g = "CYP2C19" -> [genotype |-> "*1/*1", phenotype |-> c19]
                      [] g = "SLCO1B1" -> [genotype |-> "*1/*1", phenotype |-> slco]
                      [] g = "DPYD" -> [genotype |-> "*1/*1", phenotype |-> dpyd]],
      medications |-> [m \in Medications |->
                          IF m = "ibuprofen" THEN taking ELSE "false"]] :
        gt \in {"*1/*1", "*2/*3", "*1/*8"},
        c9 \in {Metabolizer("Normal"), Metabolizer("Poor"), Indeterminate},
        c19 \in {Metabolizer("Ultrarapid"), Metabolizer("Normal"),
                 Metabolizer("Intermediate"), Metabolizer("Poor")},
        slco \in {Function("Normal"), Function("Decreased")},
        dpyd \in {Metabolizer("Normal"), Indeterminate},
        taking \in {"true", "false"}}

MissingGeneAnswers == Genes \cup {actual_missing_gene}
PhenotypeAnswers ==
    {"ultrarapid", "rapid", "normal", "intermediate", "poor", "increased",
     "decreased", "indeterminate", "Normal"}
YesNoAnswers == {"yes", "no"}

\* a row an earlier participant of the run left in the log
EarlierLog ==
    <<[study_group |-> "PharMe", question |-> "ibuprofen", answer |-> "no",
       notes |-> <<"CYP2C9", "Normal", "Metabolizer", "(", "2.0", ")">>]>>
EarlierSecretLog == <<"p0">>

\* no cell has been scored yet
NoCall == [column |-> <<>>, answer |-> "", result |-> ""]

InitScorer ==
    /\ component = "scorer"
    /\ ScOthersIdle
    /\ redcap_data \in [{ScoredParticipant} -> StudyGroups \cup {NULL}]
    /\ participant \in [participant_id : {ScoredParticipant},
                        pharme_id : PharmeIds,
                        data : GroundTruthRecords]
    /\ comprehension_log = EarlierLog
    /\ secret_log = EarlierSecretLog
    /\ call = NoCall

\* one cell of the participant's row goes through _get_comprehension_result
Score(column, participant_answer) ==
    /\ call = NoCall
    /\ LET outcome == GetComprehensionResult(participant.participant_id,
                          participant.pharme_id, participant_answer,
                          participant.data, column)
       IN  /\ comprehension_log' = comprehension_log \o outcome.row
           /\ secret_log' = secret_log \o outcome.secret
           /\ call' = [column |-> column, answer |-> participant_answer,
                       result |-> outcome.result]
    /\ UNCHANGED <<redcap_data, participant>>
    /\ ScFrame

ScoreStaticAnswer ==
    \E column \in static_answer_columns, answer \in YesNoAnswers :
        Score(column, answer)

ScoreMissingGene ==
    \E answer \in MissingGeneAnswers : Score(missing_gene_column, answer)

ScorePhenotypeAnswer ==
    \E column \in phenotype_answer_columns, answer \in PhenotypeAnswers :
        Score(column, answer)

ScoreMedicationAnswer ==
    \E column \in medication_answer_columns, answer \in YesNoAnswers :
        Score(column, answer)

NextScorer ==
    \/ ScoreStaticAnswer
    \/ ScoreMissingGene
    \/ ScorePhenotypeAnswer
    \/ ScoreMedicationAnswer

SpecScorer == InitScorer /\ [][NextScorer]_vars

(***************************************************************************)
(* Claims on the comprehension scorer                                      *)
(***************************************************************************)
Scored == component = "scorer" /\ call # NoCall

\* the rows this call added to the correctness log and to the secret log
NewLogRows == SubSeq(comprehension_log, Len(EarlierLog) + 1, Len(comprehension_log))
NewSecretRows == SubSeq(secret_log, Len(EarlierSecretLog) + 1, Len(secret_log))

\* exactly one entry was appended, for this question and this answer
LoggedOnce(question) ==
    /\ Len(NewLogRows) = 1
    /\ NewLogRows[1].question = question
    /\ NewLogRows[1].answer = call.answer
    /\ NewSecretRows = <<participant.participant_id>>

Contains(notes, words) ==
    \E i \in 0..(Len(notes) - Len(words)) :
        SubSeq(notes, i + 1, i + Len(words)) = words

\* C4: the missing-gene question. The answer "MTHFR" is correct whatever the
\* ground truth and writes no log entry; any other answer whose gene has the
\* ground-truth phenotype "Indeterminate", or that is "DPYD" for a participant
\* on the exception list, is correct and logged as an override; any other
\* answer is incorrect and logged, and the note about a gene simplified in
\* PharMe does not change the verdict.
C4_MissingGeneVerdictAndLog ==
    (Scored /\ call.column = missing_gene_column) =>
        LET genes == participant.data.genes
            override ==
                \/ genes[call.answer].phenotype = Indeterminate
                \/ /\ call.answer = "DPYD"
                   /\ participant.pharme_id \in DPYD_INDETERMINATE_CASTS
        IN  IF call.answer = actual_missing_gene
            THEN call.result = "True" /\ NewLogRows = <<>> /\ NewSecretRows = <<>>
            ELSE IF override
            THEN /\ call.result = "True"
                 /\ LoggedOnce(MISSING_GENE_QUESTION)
                 /\ \/ NewLogRows[1].notes
                          = <<"Overwriting to true because Indeterminate">>
                    \/ NewLogRows[1].notes
                          = <<"Overwriting to true because Indeterminate (incomplete preprocessing)">>
            ELSE /\ call.result = "False"
                 /\ LoggedOnce(MISSING_GENE_QUESTION)
                 /\ Contains(NewLogRows[1].notes,
                             <<call.answer>> \o genes[call.answer].phenotype)

\* the same statement for participants who have a study group
C4_WithStudyGroup ==
    (Scored /\ get_study_group(participant.participant_id) # NULL) =>
        C4_MissingGeneVerdictAndLog

\* C5: a phenotype question. The verdict is correct iff the answer equals,
\* ignoring letter case, the first word of the ground-truth phenotype of the
\* gene the question names; an incorrect verdict writes exactly one log entry,
\* which contains the actual phenotype.
C5_PhenotypeVerdictIgnoresCase ==
    (Scored /\ call.column \in phenotype_answer_columns) =>
        LET gene == get_gene_from_question(call.column)
            phenotype == participant.data.genes[gene].phenotype
            same == LowerWord(call.answer) = LowerWord(phenotype[1])
        IN  /\ call.result = IF same THEN "True" ELSE "False"
            /\ call.result = "True" => NewLogRows = <<>>
            /\ call.result = "False" =>
                  /\ LoggedOnce(gene)
                  /\ Contains(NewLogRows[1].notes, phenotype)

\* the same statement for participants who have a study group
C5_WithStudyGroup ==
    (Scored /\ get_study_group(participant.participant_id) # NULL) =>
        C5_PhenotypeVerdictIgnoresCase

\* the comparison the code makes: only the ground truth is lower-cased
C5_AsCoded ==
    (/\ Scored
     /\ call.column \in phenotype_answer_columns
     /\ get_study_group(participant.participant_id) # NULL) =>
        LET gene == get_gene_from_question(call.column)
            phenotype == participant.data.genes[gene].phenotype
            same == call.answer = LowerWord(phenotype[1])
        IN  /\ call.result = IF same THEN "True" ELSE "False"
            /\ call.result = "True" => NewLogRows = <<>>
            /\ call.result = "False" =>
                  /\ LoggedOnce(gene)
                  /\ Contains(NewLogRows[1].notes, phenotype)

\* C6: a medication question, for each of the four medications. The verdict
\* is correct iff the answer is "yes" exactly when the ground-truth phenotype
\* of the medication's gene is in its safe-at-standard-dose set; an incorrect
\* answer on a CYP2C9 medication is logged with the activity score of the
\* participant's genotype. Stated for genotypes the score table knows.
C6_MedicationVerdictAndScore ==
    (Scored /\ call.column \in medication_answer_columns) =>
        LET medication == get_medication_from_question(call.column)
            gene == medication_at_standard_dose_phenotypes[medication].gene
            truth == participant.data.genes[gene]
            safe == truth.phenotype
                       \in medication_at_standard_dose_phenotypes[medication].phenotypes
            correct == (call.answer = "yes") <=> safe
        IN  (gene = "CYP2C9" => truth.genotype \in DOMAIN cyp2c9_activity_scores) =>
               /\ call.result = IF correct THEN "True" ELSE "False"
               /\ correct => NewLogRows = <<>>
               /\ (~correct /\ gene = "CYP2C9") =>
                     /\ LoggedOnce(medication)
                     /\ Contains(NewLogRows[1].notes,
                                 <<"(", cyp2c9_activity_scores[truth.genotype], ")">>)

\* the same statement for participants who have a study group
C6_WithStudyGroup ==
    (Scored /\ get_study_group(participant.participant_id) # NULL) =>
        C6_MedicationVerdictAndScore

(***************************************************************************)
(* Score aggregator: get_single_score and get_defined_scores               *)
(***************************************************************************)
\* an Optional value: None, or the value it holds
None == <<>>
Some(value) == <<value>>

\* Survey.COMPREHENSION has the built-in Likert map; any other survey has not
Surveys == {"COMPREHENSION", "BASELINE_KNOWLEDGE"}

\* the answer definition cells a question row of the definition table can hold
ScoredOptions == <<[key |-> "never", score |-> 0], [key |-> "occasionally", score |-> 2]>>
LikertOptions == <<[key |-> "disagree"], [key |-> "agree"]>>

QuestionKinds ==
    {[type |-> "SINGLE_CHOICE", options |-> ScoredOptions],
     [type |-> "SINGLE_CHOICE", options |-> LikertOptions],
     [type |-> "YESNO_CHOICE", options |-> NULL],
     [type |-> "TEXT", options |-> NULL]}

\* load_answer_definitions: the fixed yes/no pair for a YESNO_CHOICE question,
\* None when the options cell is NaN, else the parsed list
load_answer_definitions(question_row) ==
    IF question_row.type = "YESNO_CHOICE"
    THEN Some(<<[key |-> "yes"], [key |-> "no"]>>)
    ELSE IF value_is_nan(question_row.options) THEN None
    ELSE Some(question_row.options)

comprehension_scores ==
    [k \in {"strongly_disagree", "disagree", "agree", "strongly_agree"} |->
        CASE k = "strongly_disagree" -> 1
          [] k = "disagree" -> 2
          [] k = "agree" -> 3
          [] k = "strongly_agree" -> 4]

\* what a call gives back: a value (None or a number) or the error it raised
Value(score) == [raised |-> "", score |-> score]
Raise(error) == [raised |-> error, score |-> None]

\* get_single_score: the first definition whose key is the answer
get_single_score(survey_, question_row, answer) ==
    LET answer_definitions == load_answer_definitions(question_row)
    IN  IF answer_definitions = None
        THEN Raise("TypeError")     \* iterating over None
        ELSE
          LET options == answer_definitions[1]
              matching == {i \in DOMAIN options : options[i].key = answer}
          IN  IF matching = {} THEN Value(None)
              ELSE
                LET answer_definition ==
                        options[CHOOSE i \in matching : \A j \in matching : i <= j]
                IN  IF "score" \in DOMAIN answer_definition
                    THEN Value(Some(answer_definition.score))
                    ELSE IF survey_ = "COMPREHENSION"
                    THEN IF answer_definition.key \in DOMAIN comprehension_scores
                         THEN Value(Some(comprehension_scores[answer_definition.key]))
                         ELSE Raise("KeyError")
                    ELSE Raise("UndefinedScoresError")

\* the loop over the definition rows for one data row, from row i on:
\* acc holds score, all_not_answered and the error raised, if any
RECURSIVE ScoreLoop(_, _, _)
ScoreLoop(row, i, acc) ==
    IF i > Len(definitions) \/ acc.raised # "" THEN acc
    ELSE
      LET question_row == definitions[i]
          question_title == question_row.title
      IN  IF question_title \notin DOMAIN row.answers
          THEN ScoreLoop(row, i + 1, acc)
          ELSE
            LET answer_score ==
                    get_single_score(survey, question_row, row.answers[question_title])
            IN  IF answer_score.raised # ""
                THEN [acc EXCEPT !.raised = answer_score.raised]
                ELSE IF answer_score.score = None
                THEN ScoreLoop(row, i + 1, acc)
                ELSE ScoreLoop(row, i + 1,
                               [acc EXCEPT !.all_not_answered = FALSE,
                                           !.score = @ + answer_score.score[1]])

\* a total of 0 taken for "nothing answered"
RowScoreNullWhenZero(row) ==
    LET result == ScoreLoop(row, 1, [score |-> 0, all_not_answered |-> TRUE, raised |-> ""])
    IN  [result EXCEPT !.all_not_answered = (result.score = 0)]

RowScore(row) ==
    ScoreLoop(row, 1, [score |-> 0, all_not_answered |-> TRUE, raised |-> ""])

(* ---- inputs ---- *)
Titles == {"q1", "q2"}
ScoreParticipants == {"p1", "p2"}
Answers == {NULL, "never", "occasionally", "agree", "yes"}

DefinitionTables ==
    {<<[title |-> "q1", type |-> k1.type, options |-> k1.options],
       [title |-> "q2", type |-> k2.type, options |-> k2.options]>> :
        k1 \in QuestionKinds, k2 \in QuestionKinds}

\* every row of a table has the same columns
DataTables ==
    UNION {SeqsUpTo([participant_id : ScoreParticipants,
                     answers : [columns -> Answers]],
                    Cardinality(ScoreParticipants)) :
           columns \in SUBSET Titles}

InitAggregator ==
    /\ component = "aggregator"
    /\ AgOthersIdle
    /\ survey \in Surveys
    /\ definitions \in DefinitionTables
    /\ data \in DataTables
    /\ data_row = 0
    /\ score_data = <<>>
    /\ score_status = "running"

MoreRows == score_status = "running" /\ data_row < Len(data)

\* one pass of the outer loop: the row's score, or None if nothing scored
ScoreRow ==
    /\ MoreRows
    /\ LET row == data[data_row + 1]
           result == RowScore(row)
       IN  /\ result.raised = ""
           /\ score_data' = Append(score_data,
                  [participant_id |-> row.participant_id,
                   score |-> IF result.all_not_answered THEN None
                             ELSE Some(result.score)])
    /\ data_row' = data_row + 1
    /\ UNCHANGED <<survey, definitions, data, score_status>>
    /\ AgFrame

\* get_single_score raised: the error leaves get_defined_scores, no table
RaiseInRow ==
    /\ MoreRows
    /\ LET result == RowScore(data[data_row + 1])
       IN  /\ result.raised # ""
           /\ score_status' = result.raised
    /\ UNCHANGED <<survey, definitions, data, data_row, score_data>>
    /\ AgFrame

ReturnScores ==
    /\ score_status = "running"
    /\ data_row = Len(data)
    /\ score_status' = "returned"
    /\ UNCHANGED <<survey, definitions, data, data_row, score_data>>
    /\ AgFrame

NextAggregator == ScoreRow \/ RaiseInRow \/ ReturnScores

SpecAggregator == InitAggregator /\ [][NextAggregator]_vars

(***************************************************************************)
(* Claims on the score aggregator                                          *)
(***************************************************************************)
\* the definition rows whose question is a column of the row and whose
\* answer has a score
ScoringQuestions(row) ==
    {i \in DOMAIN definitions :
        /\ definitions[i].title \in DOMAIN row.answers
        /\ get_single_score(survey, definitions[i],
                            row.answers[definitions[i].title]).score # None}

QuestionScore(row, i) ==
    get_single_score(survey, definitions[i], row.answers[definitions[i].title]).score[1]

RECURSIVE SumOfScores(_, _)
SumOfScores(row, questions) ==
    IF questions = {} THEN 0
    ELSE LET i == CHOOSE q \in questions : TRUE
         IN  QuestionScore(row, i) + SumOfScores(row, questions \ {i})

\* C7: whenever get_defined_scores produces score rows, the score of each
\* participant row is null iff no question present in both the row and the
\* definition table yields a non-null score; otherwise it is the sum of the
\* non-null question scores (an answer scored 0 gives 0, not null).  The
\* table it returns has one score row per data row.
C7_AggregateScore ==
    component = "aggregator" =>
        /\ \A i \in DOMAIN score_data :
              /\ score_data[i].participant_id = data[i].participant_id
              /\ score_data[i].score = None <=> ScoringQuestions(data[i]) = {}
              /\ score_data[i].score # None =>
                    score_data[i].score
                        = Some(SumOfScores(data[i], ScoringQuestions(data[i])))
        /\ score_status = "returned" => Len(score_data) = Len(data)

\* a returned table with a row whose only scored answer has score 0 beside
\* an unscored one, and a row where nothing scored
C7_Witness ==
    /\ component = "aggregator"
    /\ score_status = "returned"
    /\ \E i \in DOMAIN score_data :
          /\ score_data[i].score = Some(0)
          /\ Cardinality(ScoringQuestions(data[i])) = 1
          /\ DOMAIN data[i].answers = Titles
    /\ \E j \in DOMAIN score_data : score_data[j].score = None

(***************************************************************************)
(* Comparison result ledger: _write_to_results_table                       *)
(***************************************************************************)
\* a float is NaN or a number, here in thousandths
nan == <<>>
Float(thousandths) == <<thousandths>>

\* ComparisonResult and its subclasses: statistic and effect_method are
\* class attributes, notes defaults to ""
ComparisonResult(p_value, statistic, effect_size, effect_method_, notes) ==
    [p_value |-> p_value, statistic |-> statistic, effect_size |-> effect_size,
     effect_method |-> effect_method_, notes |-> notes]

TTestResult(p_value, effect_size) ==
    ComparisonResult(p_value, "t-test", effect_size, "d", "")
MannWhitneyUResult(p_value, effect_size) ==
    ComparisonResult(p_value, "mannwhitneyu", effect_size, "r", "")
FisherResult(p_value, effect_size) ==
    ComparisonResult(p_value, "fisher", effect_size, "V", "")
McNemarResult(p_value, effect_size, notes) ==
    ComparisonResult(p_value, "mcnemar", effect_size, "phi", notes)

\* Comparison enum values
Comparisons == {"study_groups", "time_points"}

results_table_columns ==
    {"comparison", "item", "title", "p_value", "statistic", "effect_size",
     "effect_method", "notes"}
float_columns == {"p_value", "effect_size"}

\* the floats of the model and the text to_csv prints for them
FloatTexts == {<<30, "0.03">>, <<500, "0.5">>, <<1000, "1.0">>}

\* DataFrame.to_csv: NaN is written as the empty field
FloatToCsv(value) ==
    IF value = nan THEN ""
    ELSE (CHOOSE ft \in FloatTexts : ft[1] = value[1])[2]
TextToCsv(value) == IF value_is_nan(value) THEN "" ELSE value

\* pandas.read_csv: the empty field is read as NaN
FloatFromCsv(field) ==
    IF field = "" THEN nan
    ELSE Float((CHOOSE ft \in FloatTexts : ft[2] = field)[1])
TextFromCsv(field) == IF field = "" THEN NULL ELSE field

ToCsvRow(row) ==
    [c \in results_table_columns |->
        IF c \in float_columns THEN FloatToCsv(row[c]) ELSE TextToCsv(row[c])]
FromCsvRow(fields) ==
    [c \in results_table_columns |->
        IF c \in float_columns THEN FloatFromCsv(fields[c]) ELSE TextFromCsv(fields[c])]

\* write_data_frame and load_data_from_file on RESULTS_TABLE_FILE
write_data_frame(frame) ==
    [exists |-> TRUE, rows |-> [i \in DOMAIN frame |-> ToCsvRow(frame[i])]]
load_data_from_file(file) == [i \in DOMAIN file.rows |-> FromCsvRow(file.rows[i])]

NoFile == [exists |-> FALSE, rows |-> <<>>]

RowData(comparison, item, title, comparison_result) ==
    [comparison |-> comparison, item |-> item, title |-> title,
     p_value |-> comparison_result.p_value,
     statistic |-> comparison_result.statistic,
     effect_size |-> comparison_result.effect_size,
     effect_method |-> comparison_result.effect_method,
     notes |-> comparison_result.notes]

\* an upsert that never finds the present row
WriteAlwaysAppends(file, comparison, item, title, comparison_result) ==
    LET row_data == RowData(comparison, item, title, comparison_result)
    IN  [file |-> write_data_frame(
                    IF file.exists THEN Append(load_data_from_file(file), row_data)
                    ELSE <<row_data>>),
         warned |-> <<>>]

\* an upsert that takes the first of several present rows for the row
WriteOverFirstMatch(file, comparison, item, title, comparison_result) ==
    LET row_data == RowData(comparison, item, title, comparison_result)
    IN  IF ~file.exists
        THEN [file |-> write_data_frame(<<row_data>>), warned |-> <<>>]
        ELSE
          LET results_data == load_data_from_file(file)
              present_row == {i \in DOMAIN results_data :
                                 /\ results_data[i].comparison = comparison
                                 /\ results_data[i].item = item}
          IN  IF present_row = {}
              THEN [file |-> write_data_frame(Append(results_data, row_data)),
                    warned |-> <<>>]
              ELSE [file |-> write_data_frame(
                                [i \in DOMAIN results_data |->
                                    IF i = CHOOSE m \in present_row :
                                               \A n \in present_row : m <= n
                                    THEN row_data ELSE results_data[i]]),
                    warned |-> IF Cardinality(present_row) = 1 THEN <<>>
                               ELSE << <<comparison, item>> >>]

\* _write_to_results_table: the file it leaves and the warning it printed
WriteToResultsTable(file, comparison, item, title, comparison_result) ==
    LET row_data == RowData(comparison, item, title, comparison_result)
    IN  IF ~file.exists
        THEN [file |-> write_data_frame(<<row_data>>), warned |-> <<>>]
        ELSE
          LET results_data == load_data_from_file(file)
              present_row == {i \in DOMAIN results_data :
                                 /\ results_data[i].comparison = comparison
                                 /\ results_data[i].item = item}
          IN  IF Cardinality(present_row) = 0
              THEN [file |-> write_data_frame(Append(results_data, row_data)),
                    warned |-> <<>>]
              ELSE IF Cardinality(present_row) = 1
              THEN [file |-> write_data_frame(
                                [i \in DOMAIN results_data |->
                                    IF i \in present_row THEN row_data
                                    ELSE results_data[i]]),
                    warned |-> <<>>]
              ELSE [file |-> write_data_frame(results_data),
                    warned |-> << <<comparison, item>> >>]

(* ---- inputs ---- *)
MaxUpserts == 3

Items == {"wrong_answers_t0", "comprehension_score_t0"}
PlotTitles == {"Wrong answers", "Comprehension score"}
ComparisonResults ==
    {TTestResult(Float(30), Float(500)),
     FisherResult(Float(1000), nan),
     McNemarResult(nan, nan, "No paired data")}

InitLedger ==
    /\ component = "ledger"
    /\ LgOthersIdle
    /\ results_table = NoFile
    /\ ledger_warnings = <<>>
    /\ upserts = <<>>

Upsert ==
    /\ Len(upserts) < MaxUpserts
    /\ \E comparison \in Comparisons, item \in Items, title \in PlotTitles,
          comparison_result \in ComparisonResults :
          LET written == WriteToResultsTable(results_table, comparison, item,
                                             title, comparison_result)
          IN  /\ results_table' = written.file
              /\ ledger_warnings' = ledger_warnings \o written.warned
              /\ upserts' = Append(upserts,
                     RowData(comparison, item, title, comparison_result))
    /\ LgFrame

NextLedger == Upsert

SpecLedger == InitLedger /\ [][NextLedger]_vars

(***************************************************************************)
(* Claims on the comparison result ledger                                  *)
(***************************************************************************)
SameKey(a, b) == a.comparison = b.comparison /\ a.item = b.item

\* the position of the most recent upsert with the key of upsert u
LatestUpsert(u) ==
    CHOOSE i \in DOMAIN upserts :
        /\ SameKey(upserts[i], u)
        /\ \A j \in DOMAIN upserts : SameKey(upserts[j], u) => j <= i

OneRowPerKeyWithLatest ==
    /\ results_table.exists <=> upserts # <<>>
    /\ \A i \in DOMAIN upserts :
          \E k \in DOMAIN results_table.rows :
              /\ results_table.rows[k] = ToCsvRow(upserts[LatestUpsert(upserts[i])])
              /\ \A m \in DOMAIN results_table.rows :
                    SameKey(results_table.rows[m], upserts[i]) => m = k
    /\ \A k \in DOMAIN results_table.rows :
          \E i \in DOMAIN upserts : SameKey(results_table.rows[k], upserts[i])

UpsertKeepsOtherKeys ==
    upserts' # upserts =>
        LET u == upserts'[Len(upserts')]
        IN  /\ \A k \in DOMAIN results_table.rows :
                  ~SameKey(results_table.rows[k], u) =>
                      /\ k \in DOMAIN results_table'.rows
                      /\ results_table'.rows[k] = results_table.rows[k]
            /\ (\E i \in DOMAIN upserts :
                    upserts[i] = u /\ i = LatestUpsert(u))
                  => results_table' = results_table

\* C10: starting from no backing store, after any sequence of upserts the
\* ledger holds exactly one row per distinct (comparison kind, item) key
\* upserted, carrying the title and result of the most recent upsert for that
\* key; an upsert never changes the rows of other keys, and repeating the
\* same upsert leaves the ledger unchanged.
C10_LedgerUpsert ==
    /\ [](component = "ledger" => OneRowPerKeyWithLatest)
    /\ [][component = "ledger" => UpsertKeepsOtherKeys]_vars

\* two keys in the ledger, one of them upserted twice with different data
C10_Witness ==
    /\ component = "ledger"
    /\ Len(upserts) = 3
    /\ Len(results_table.rows) = 2
    /\ \E i, j \in DOMAIN upserts :
          i < j /\ SameKey(upserts[i], upserts[j]) /\ upserts[i] # upserts[j]

(***************************************************************************)
(* Statistical comparator: create_comparison_plot with assess_difference   *)
(***************************************************************************)
\* create_comparison_plot's survey argument defaults to None
NoSurvey == "None"

\* pd.api.types.is_any_real_numeric_dtype on the dtype of the column
plot_is_numeric(dtype) == dtype \in {"int64", "float64"}

ordinal_indicators == {"agree", "moderately_true", "occasionally", "somewhat", "neutral"}

NeverOrdinal(label_definition) == FALSE

\* _plot_is_ordinal: some indicator is a key of the label definition
plot_is_ordinal(label_definition) ==
    IF label_definition = None THEN FALSE
    ELSE \E ordinal_indicator \in ordinal_indicators :
            ordinal_indicator \in label_definition[1]

\* get_label_definition: the keys of the question's answer definitions
get_label_definition(question_row) ==
    LET answer_definitions == load_answer_definitions(question_row)
    IN  IF answer_definitions = None THEN None
        ELSE Some({answer_definitions[1][i].key : i \in DOMAIN answer_definitions[1]})

\* _is_data_normally_distributed: every group passes the Shapiro-Wilk check
is_data_normally_distributed(normal) == \A group \in DOMAIN normal : normal[group]

\* the p-values and effect sizes the tests can report
PValues == {Float(30)}
EffectSizes == {Float(500)}

\* are_study_groups_different_ordinal
OrdinalResults == {MannWhitneyUResult(p, e) : p \in PValues, e \in EffectSizes}

\* are_study_groups_different_parametric
ParametricResults(normal) ==
    IF is_data_normally_distributed(normal)
    THEN {TTestResult(p, e) : p \in PValues, e \in EffectSizes}
    ELSE OrdinalResults

\* are_study_groups_different_categorical: Cramer's V may be NaN
CategoricalResults == {FisherResult(p, e) : p \in PValues, e \in EffectSizes \cup {nan}}

\* get_defined_scores(survey, data[[PARTICIPANT_ID, column]]): the error of
\* the first row that raises, or "" when every row is scored
DefinedScoresRaised ==
    LET raising == {i \in DOMAIN data : RowScore(data[i]).raised # ""}
    IN  IF raising = {} THEN ""
        ELSE RowScore(data[CHOOSE i \in raising : \A j \in raising : i <= j]).raised

\* the branch of create_comparison_plot: the results the chosen test can
\* give, the error that leaves it, and the warning it prints
AssessDifference ==
    IF plot_is_numeric(plot.dtype)
    THEN [raised |-> "", results |-> ParametricResults(plot.normal), printed |-> <<>>]
    ELSE IF survey # NoSurvey /\ plot_is_ordinal(plot.label_definition)
    THEN IF DefinedScoresRaised # ""
         THEN [raised |-> DefinedScoresRaised, results |-> {}, printed |-> <<>>]
         ELSE [raised |-> "", results |-> OrdinalResults, printed |-> <<>>]
    ELSE [raised |-> "", results |-> CategoricalResults,
          printed |-> IF survey = NoSurvey
                      THEN <<"no survey was passed, assuming categorical">>
                      ELSE <<>>]

(* ---- inputs ---- *)
PlotColumn == "q1"
PlotTitle == "Comprehension score"
PlotFileName == "comprehension_score_t0"

\* label definitions a caller without a survey passes
LabelDefinitions == {None, Some({"disagree", "agree"}), Some({"yes", "no"})}

\* a numeric column, and a column of answer keys
NumericTables ==
    {<<[participant_id |-> "p1", answers |-> [c \in {PlotColumn} |-> v1]],
       [participant_id |-> "p2", answers |-> [c \in {PlotColumn} |-> v2]]>> :
        v1 \in {1, 2}, v2 \in {1, 2}}
AnswerTables ==
    SeqsUpTo([participant_id : ScoreParticipants, answers : [{PlotColumn} -> Answers]],
             Cardinality(ScoreParticipants))

\* the ledger before the call: no file yet, or the row of an earlier run
EarlierLedgers ==
    {NoFile,
     write_data_frame(<<RowData("study_groups", PlotFileName, PlotTitle,
                                FisherResult(Float(1000), nan))>>)}

NotAssessed == [raised |-> "", result |-> <<>>, printed |-> <<>>]

InitComparator ==
    /\ component = "comparator"
    /\ CpOthersIdle
    /\ survey \in Surveys \cup {NoSurvey}
    /\ definitions \in DefinitionTables
    /\ \E dtype \in {"int64", "object"} :
          /\ data \in IF plot_is_numeric(dtype) THEN NumericTables ELSE AnswerTables
          /\ plot \in [title : {PlotTitle}, column : {PlotColumn},
                       file_name : {PlotFileName}, dry_run : BOOLEAN,
                       dtype : {dtype},
                       label_definition :
                           IF survey = NoSurvey THEN LabelDefinitions
                           ELSE {get_label_definition(definitions[1])},
                       normal : IF plot_is_numeric(dtype)
                                THEN [StudyGroups -> BOOLEAN]
                                ELSE {[group \in StudyGroups |-> FALSE]}]
    /\ results_table \in EarlierLedgers
    /\ ledger_warnings = <<>>
    /\ assessed = NotAssessed

\* the difference is assessed and, unless dry_run, upserted into the ledger
CreateComparisonPlot ==
    /\ assessed = NotAssessed
    /\ AssessDifference.raised = ""
    /\ \E comparison_result \in AssessDifference.results :
          /\ assessed' = [raised |-> "", result |-> <<comparison_result>>,
                          printed |-> AssessDifference.printed]
          /\ IF plot.dry_run
             THEN UNCHANGED <<results_table, ledger_warnings>>
             ELSE LET written == WriteToResultsTable(results_table, "study_groups",
                                     plot.file_name, plot.title, comparison_result)
                  IN  /\ results_table' = written.file
                      /\ ledger_warnings' = ledger_warnings \o written.warned
    /\ UNCHANGED <<plot, survey, definitions, data>>
    /\ CpFrame

\* scoring the ordinal column raised: nothing is tested, written or plotted
CreateComparisonPlotRaises ==
    /\ assessed = NotAssessed
    /\ AssessDifference.raised # ""
    /\ assessed' = [raised |-> AssessDifference.raised, result |-> <<>>,
                    printed |-> <<>>]
    /\ UNCHANGED <<plot, survey, definitions, data, results_table, ledger_warnings>>
    /\ CpFrame

NextComparator == CreateComparisonPlot \/ CreateComparisonPlotRaises

SpecComparator == InitComparator /\ [][NextComparator]_vars

(***************************************************************************)
(* Claims on the statistical comparator                                    *)
(***************************************************************************)
Assessed == component = "comparator" /\ assessed # NotAssessed

\* the test that ran and its effect method
RanTest(statistic, effect_method_) ==
    /\ assessed.raised = ""
    /\ assessed.result # <<>>
    /\ assessed.result[1].statistic = statistic
    /\ assessed.result[1].effect_method = effect_method_

HasOrdinalMarker ==
    /\ plot.label_definition # None
    /\ plot.label_definition[1] \cap ordinal_indicators # {}

BothGroupsNormal == \A group \in StudyGroups : plot.normal[group]

RelativeDifferencePercent == 10

\* both groups have this shape around their mean: equal sizes and spreads
Offsets == <<-3, -1, 1, 3>>
GroupData(mean) == [i \in DOMAIN Offsets |-> mean + Offsets[i]]

RECURSIVE Sum(_)
Sum(values) == IF values = <<>> THEN 0 ELSE Head(values) + Sum(Tail(values))

\* np.mean; the group means of the model are whole numbers
Mean(values) == Sum(values) \div Len(values)

\* np.std squared
Variance(values) ==
    Sum([i \in DOMAIN values |-> (values[i] - Mean(values)) * (values[i] - Mean(values))])
        \div Len(values)

Abs(x) == IF x < 0 THEN -x ELSE x

\* two-sided p-value of Student's t, in 1/100000, for two groups of four
\* with variance 5 whose means differ by 0, 1, 2, ...
TwoSidedPValues ==
    <<100000, 55042, 25281, 10656, 4469, 1951, 902, 444, 231, 127, 73, 44, 27,
      17, 12, 8, 5>>

\* scipy.stats.ttest_ind_from_stats: the statistic has the sign of
\* mean1 - mean2 (here in units of the difference of means), the p-value
\* is two-sided and depends on its size only
ttest_ind_from_stats(mean1, var1, nobs1, mean2, var2, nobs2) ==
    [statistic |-> mean1 - mean2,
     pvalue |-> TwoSidedPValues[Abs(mean1 - mean2) + 1]]

\* P(U <= u) in 1/100000 for two groups of four without ties
MannWhitneyLessPValues ==
    <<1429, 2857, 5714, 10000, 17143, 24286, 34286, 44286, 55714, 65714, 75714,
      82857, 90000, 94286, 97143, 98571, 100000>>

\* pingouin.mwu(x, y, alternative="less"): U counts the pairs with x > y
mwu_less(x, y) ==
    LET U == Cardinality({pair \in (DOMAIN x) \X (DOMAIN y) : x[pair[1]] > y[pair[2]]})
    IN  MannWhitneyLessPValues[U + 1]

\* _test_non_inferiority_with_t_test: returns (statistic, pvalue)
test_non_inferiority_with_t_test(control, test, percent) ==
    LET control_group_mean == Mean(control)
        delta == (percent * control_group_mean) \div 100
        threshold == control_group_mean - delta
        result == ttest_ind_from_stats(threshold, Variance(control), Len(control),
                                       Mean(test), Variance(test), Len(test))
    IN  [kind |-> "tuple", statistic |-> result.statistic,
         pvalue |-> result.pvalue \div 2]

\* _test_non_inferiority_with_mann_whitney: returns the p-value.  The
\* threshold data value - value * relative_difference and the test data are
\* both taken times 100
test_non_inferiority_with_mann_whitney(control, test, percent) ==
    LET threshold_data == [i \in DOMAIN control |-> 100 * control[i] - control[i] * percent]
        test_data == [i \in DOMAIN test |-> 100 * test[i]]
    IN  [kind |-> "float", statistic |-> 0, pvalue |-> mwu_less(threshold_data, test_data)]

(* ---- inputs ---- *)
MaxRuns == 2
ControlMeans == {10, 20}
TestMeans == 12..24

InitNonInferiority ==
    /\ component = "non_inferiority"
    /\ NiOthersIdle
    /\ \E mean \in ControlMeans : control_group_data = GroupData(mean)
    /\ samples_are_normal \in BOOLEAN
    /\ runs = <<>>

TestWithTTest ==
    /\ Len(runs) < MaxRuns
    /\ samples_are_normal
    /\ \E mean \in TestMeans :
          runs' = Append(runs,
              [test_group_data |-> GroupData(mean),
               returned |-> test_non_inferiority_with_t_test(control_group_data,
                                GroupData(mean), RelativeDifferencePercent)])
    /\ UNCHANGED <<control_group_data, samples_are_normal>>
    /\ NiFrame

TestWithMannWhitney ==
    /\ Len(runs) < MaxRuns
    /\ ~samples_are_normal
    /\ \E mean \in TestMeans :
          runs' = Append(runs,
              [test_group_data |-> GroupData(mean),
               returned |-> test_non_inferiority_with_mann_whitney(control_group_data,
                                GroupData(mean), RelativeDifferencePercent)])
    /\ UNCHANGED <<control_group_data, samples_are_normal>>
    /\ NiFrame

NextNonInferiority == TestWithTTest \/ TestWithMannWhitney

SpecNonInferiority == InitNonInferiority /\ [][NextNonInferiority]_vars

(***************************************************************************)
(* Claims on the non-inferiority test                                      *)
(***************************************************************************)
\* the runs of one control group with mean 20 against test means 21 and 15
Directional(better, worse) ==
    /\ Mean(control_group_data) = 20
    /\ Mean(runs[better].test_group_data) = 21
    /\ Mean(runs[worse].test_group_data) = 15

\* C9: with relative margin 0.1 and control mean 20 (threshold 18), group
\* sizes and spreads equal, the one-sided p-value returned for a test-group
\* mean of 21 is strictly smaller than the one returned for a mean of 15.
C9_DirectionallySensitive ==
    component = "non_inferiority" =>
        \A better, worse \in DOMAIN runs :
            Directional(better, worse) =>
                runs[better].returned.pvalue < runs[worse].returned.pvalue

\* the same statement on the Mann-Whitney-U branch alone
C9_OnMannWhitney ==
    (component = "non_inferiority" /\ ~samples_are_normal) =>
        C9_DirectionallySensitive

(***************************************************************************)
(* More claims on the comprehension scorer                                 *)
(***************************************************************************)
\* the ibuprofen question was scored for a participant with the CYP2C9
\* genotype *1/*8, which the activity-score table does not list
UnknownGenotypeScored ==
    /\ Scored
    /\ call.column = MedicationQuestion("ibuprofen")
    /\ participant.data.genes["CYP2C9"].genotype = "*1/*8"

IbuprofenCorrectAnswer ==
    IF participant.data.genes["CYP2C9"].phenotype
          \in medication_at_standard_dose_phenotypes["ibuprofen"].phenotypes
    THEN "yes" ELSE "no"

\* the claim as stated: the configuration error for every answer
C14_AsStated ==
    UnknownGenotypeScored => call.result = "Exception"

\* C14: scoring the ibuprofen question for a participant whose CYP2C9
\* genotype is not in the activity-score table fails with the configuration
\* error, with no verdict and no log entry, for every incorrect answer; a
\* correct answer returns the verdict True without reading the table.
C14_UnknownGenotype ==
    UnknownGenotypeScored =>
        /\ NewLogRows = <<>>
        /\ NewSecretRows = <<>>
        /\ call.result = IF call.answer = IbuprofenCorrectAnswer THEN "True"
                         ELSE "Exception"

C14_Witness ==
    /\ UnknownGenotypeScored
    /\ call.answer # IbuprofenCorrectAnswer
    /\ call.result = "Exception"

(***************************************************************************)
(* Claims on get_single_score                                              *)
(***************************************************************************)
\* the data rows get_defined_scores has gone through: the scored ones and
\* the one in which an error was raised
RowsGoneThrough ==
    {r \in DOMAIN data :
        \/ r <= data_row
        \/ r = data_row + 1 /\ score_status \notin {"running", "returned"}}

\* the calls of get_single_score for those rows: a definition row and the
\* answer the data row holds for its question
SingleScoreCalls ==
    {<<definitions[c[1]], data[c[2]].answers[definitions[c[1]].title]>> :
        c \in {c \in (DOMAIN definitions) \X RowsGoneThrough :
                  definitions[c[1]].title \in DOMAIN data[c[2]].answers}}

\* the entries of a question's answer definitions whose key is the answer;
\* a question without definitions has no entries
MatchingEntries(question_row, answer) ==
    LET answer_definitions == load_answer_definitions(question_row)
    IN  IF answer_definitions = None THEN {}
        ELSE {answer_definitions[1][i] : i \in
                 {i \in DOMAIN answer_definitions[1] :
                     answer_definitions[1][i].key = answer}}

\* C15: get_single_score returns null without raising whenever the answer
\* key matches no entry of the question's answer definitions, also for NaN
\* answers and for questions whose definitions are null.
C15_NoMatchReturnsNull ==
    component = "aggregator" =>
        \A c \in SingleScoreCalls :
            MatchingEntries(c[1], c[2]) = {}
                => get_single_score(survey, c[1], c[2]) = Value(None)

\* C16: for a matching entry without an explicit score, get_single_score
\* returns the fixed Likert score of the entry's key for the Comprehension
\* survey and raises the undefined-scores error for every other survey.
C16_ScoreWithoutExplicitScore ==
    component = "aggregator" =>
        \A c \in SingleScoreCalls :
            \A entry \in MatchingEntries(c[1], c[2]) :
                "score" \notin DOMAIN entry =>
                    LET result == get_single_score(survey, c[1], c[2])
                    IN  IF survey = "COMPREHENSION"
                        THEN /\ result.raised = ""
                             /\ entry.key \in DOMAIN comprehension_scores
                             /\ result.score = Some(comprehension_scores[entry.key])
                        ELSE result = Raise("UndefinedScoresError")

(***************************************************************************)
(* Effect interpreter: interpret_effect                                    *)
(***************************************************************************)
\* the effect_method of the result classes; "phi" stands for the letter
EFFECT_MEASURES == <<"d", "r">>
ASSOCIATION_MEASURES == <<"V", "phi">>

\* thresholds 0.3 and 0.5 in thousandths
SmallUpperThreshold == 300
MediumUpperThreshold == 500

\* float comparison: anything compared with NaN is False
GreaterThan(value, thousandths) == value # nan /\ Abs(value[1]) > thousandths
AtLeast(value, thousandths) == value # nan /\ Abs(value[1]) >= thousandths

\* the thresholds taken as lower bounds of the next class
InterpretEffectInclusive(effect_method_, effect_) ==
    IF effect_method_ \notin Range(EFFECT_MEASURES \o ASSOCIATION_MEASURES)
    THEN "Exception"
    ELSE IF AtLeast(effect_, MediumUpperThreshold) THEN "LARGE"
    ELSE IF AtLeast(effect_, SmallUpperThreshold) THEN "MEDIUM"
    ELSE "SMALL"

\* the classes tested from the small end, so that NaN falls through to large
InterpretEffectFromSmallEnd(effect_method_, effect_) ==
    IF effect_method_ \notin Range(EFFECT_MEASURES \o ASSOCIATION_MEASURES)
    THEN "Exception"
    ELSE IF ~GreaterThan(effect_, SmallUpperThreshold) /\ effect_ # nan THEN "SMALL"
    ELSE IF ~GreaterThan(effect_, MediumUpperThreshold) /\ effect_ # nan THEN "MEDIUM"
    ELSE "LARGE"

interpret_effect(effect_method_, effect_) ==
    IF effect_method_ \notin Range(EFFECT_MEASURES \o ASSOCIATION_MEASURES)
    THEN "Exception"
    ELSE IF GreaterThan(effect_, MediumUpperThreshold) THEN "LARGE"
    ELSE IF GreaterThan(effect_, SmallUpperThreshold) THEN "MEDIUM"
    ELSE "SMALL"

(* ---- inputs ---- *)
EffectMethods == {"d", "r", "V", "phi", "g", "eta"}
Effects ==
    {nan} \cup {Float(t) : t \in {-1000, -501, -500, -499, -301, -300, -299, -100, 0,
                                  100, 299, 300, 301, 400, 499, 500, 501, 800, 1000,
                                  1500}}

InitEffect ==
    /\ component = "effect"
    /\ EfOthersIdle
    /\ effect_method \in EffectMethods
    /\ effect \in Effects
    /\ interpretation = "pending"

InterpretEffect ==
    /\ interpretation = "pending"
    /\ interpret_effect(effect_method, effect) # "Exception"
    /\ interpretation' = interpret_effect(effect_method, effect)
    /\ UNCHANGED <<effect_method, effect>>
    /\ EfFrame

InterpretEffectRaises ==
    /\ interpretation = "pending"
    /\ interpret_effect(effect_method, effect) = "Exception"
    /\ interpretation' = "Exception"
    /\ UNCHANGED <<effect_method, effect>>
    /\ EfFrame

NextEffect == InterpretEffect \/ InterpretEffectRaises

SpecEffect == InitEffect /\ [][NextEffect]_vars

(***************************************************************************)
(* Claims on the effect interpreter                                        *)
(***************************************************************************)
Interpreted == component = "effect" /\ interpretation # "pending"

\* C17: for the methods d, r, V and phi, interpret_effect returns small
\* when |e| <= 0.3, medium when 0.3 < |e| <= 0.5 and large when |e| > 0.5,
\* identically for all four; any other method raises.
C17_EffectThresholds ==
    Interpreted =>
        IF effect_method \in {"d", "r", "V", "phi"}
        THEN effect # nan =>
                LET e == Abs(effect[1])
                IN  /\ e <= 300 => interpretation = "SMALL"
                    /\ (300 < e /\ e <= 500) => interpretation = "MEDIUM"
                    /\ e > 500 => interpretation = "LARGE"
        ELSE interpretation = "Exception"

\* an effect on the 0.3 threshold interpreted as small
C17_Witness ==
    /\ Interpreted
    /\ effect_method = "phi"
    /\ effect = Float(-300)
    /\ interpretation = "SMALL"

(***************************************************************************)
(* Paired time-point comparisons: _get_paired_data and the three           *)
(* are_time_points_different_* functions                                   *)
(***************************************************************************)
PairedWilcoxonResult(p_value, effect_size) ==
    ComparisonResult(p_value, "wilcoxon", effect_size, "r", "")

\* participant ids in index order
ParticipantOrder == <<"p1", "p2", "p3">>

Ids(frame) == {frame[i].participant_id : i \in DOMAIN frame}
ColumnOf(frame) == [i \in DOMAIN frame |-> frame[i].value]

\* frame[[PARTICIPANT_ID, column]].dropna()
dropna(frame) == SelectSeq(frame, LAMBDA row : ~value_is_nan(row.value))

\* frame[frame[PARTICIPANT_ID].isin(ids)]
isin(frame, ids) == SelectSeq(frame, LAMBDA row : row.participant_id \in ids)

\* set_index(PARTICIPANT_ID, drop=False).sort_index(), from position k on
RECURSIVE SortIndexFrom(_, _)
SortIndexFrom(frame, k) ==
    IF k > Len(ParticipantOrder) THEN <<>>
    ELSE isin(frame, {ParticipantOrder[k]}) \o SortIndexFrom(frame, k + 1)

\* the index left as the rows came
NoSortIndex(frame) == frame

sort_index(frame) == SortIndexFrom(frame, 1)

_get_paired_data(first_data_, second_data_) ==
    LET present_first_data == dropna(first_data_)
        present_second_data == dropna(second_data_)
        paired_ids == {id \in Ids(present_first_data) : id \in Ids(present_second_data)}
    IN  <<sort_index(isin(present_first_data, paired_ids)),
          sort_index(isin(present_second_data, paired_ids))>>

filter_results_by_study_group(survey_data, study_group_) ==
    LET study_group_participants ==
            {id \in DOMAIN redcap_data : redcap_data[id] = study_group_}
    IN  isin(survey_data, study_group_participants)

_get_parametric_values(data_, study_group_) ==
    dropna(filter_results_by_study_group(data_, study_group_))

\* crosstab(first, second): its index and its columns
CrosstabIndex(paired_first_data) == Range(ColumnOf(paired_first_data))
CrosstabColumns(paired_second_data) == Range(ColumnOf(paired_second_data))

\* what a comparison leaves: the series it compared, what the normality
\* check said, and the result or the error
Compared(comparison_, raised, series, samples_are_normal_, result) ==
    [comparison |-> comparison_, raised |-> raised,
     first_series |-> series[1], second_series |-> series[2],
     samples_are_normal |-> samples_are_normal_, result |-> result]

NoSeries == <<<<>>, <<>>>>
NotNormal == [checked |-> FALSE, study_group |-> FALSE]
NotCompared == Compared("", "", NoSeries, NotNormal, None)

\* the series are_time_points_different_ordinal hands to pingouin.wilcoxon
OrdinalSeries ==
    LET paired_data == _get_paired_data(first_data, second_data)
    IN  <<_get_parametric_values(paired_data[1], study_group),
          _get_parametric_values(paired_data[2], study_group)>>

\* the series are_time_points_different_categorical hands to crosstab
CategoricalSeries ==
    _get_paired_data(filter_results_by_study_group(first_data, study_group),
                     filter_results_by_study_group(second_data, study_group))

\* the samples are_time_points_different_parametric hands to the
\* normality check
NormalityCheckSamples ==
    LET paired_data == _get_paired_data(first_data, second_data)
    IN  <<ColumnOf(paired_data[1]), ColumnOf(paired_data[2])>>

\* the Shapiro-Wilk verdicts are an oracle: normal_samples are the samples
\* it does not reject
_is_data_normally_distributed(samples, normal_samples) ==
    \A i \in DOMAIN samples : samples[i] \in normal_samples

\* a table refused only when both its sides are too long
CategoricalRefusesOnlyBothLong(p_value, effect_size) ==
    LET series == CategoricalSeries
        rows == Cardinality(CrosstabIndex(series[1]))
        columns == Cardinality(CrosstabColumns(series[2]))
    IN  IF rows = 0
        THEN Compared("categorical", "", series, NotNormal,
                      Some(McNemarResult(nan, nan, "No paired data")))
        ELSE IF rows = 1 /\ columns = 1
        THEN Compared("categorical", "", series, NotNormal,
                      Some(McNemarResult(Float(1000), Float(1000), "Same paired data")))
        ELSE IF rows > 2 /\ columns > 2
        THEN Compared("categorical", "Exception", series, NotNormal, None)
        ELSE Compared("categorical", "", series, NotNormal,
                      Some(McNemarResult(p_value, effect_size, "")))

are_time_points_different_categorical(p_value, effect_size) ==
    LET series == CategoricalSeries
        rows == Cardinality(CrosstabIndex(series[1]))
        columns == Cardinality(CrosstabColumns(series[2]))
    IN  IF rows = 0
        THEN Compared("categorical", "", series, NotNormal,
                      Some(McNemarResult(nan, nan, "No paired data")))
        ELSE IF rows = 1 /\ columns = 1
        THEN Compared("categorical", "", series, NotNormal,
                      Some(McNemarResult(Float(1000), Float(1000), "Same paired data")))
        ELSE IF rows > 2 \/ columns > 2
        THEN Compared("categorical", "Exception", series, NotNormal, None)
        ELSE Compared("categorical", "", series, NotNormal,
                      Some(McNemarResult(p_value, effect_size, "")))

(* ---- inputs ---- *)
PairedParticipants == Range(ParticipantOrder)
ColumnValues == {"a", "b", "c"}

\* a time point's table has one row per participant (the time-point
\* resolver selects at most one), with a value or null
Reverse(seq) == [i \in DOMAIN seq |-> seq[Len(seq) + 1 - i]]

RowsOf(value_of) ==
    [i \in DOMAIN ParticipantOrder |->
        [participant_id |-> ParticipantOrder[i], value |-> value_of[ParticipantOrder[i]]]]

FirstTables ==
    {RowsOf(value_of) : value_of \in [PairedParticipants -> ColumnValues \cup {NULL}]}

\* the second table comes in descending id order
SecondTables == {Reverse(rows) : rows \in FirstTables}

\* REDCAP_DATA_FILE: the third participant in either group or in none
RedcapTables ==
    {[id \in PairedParticipants |-> IF id = "p3" THEN group ELSE "PharMe"] :
        group \in StudyGroups \cup {NULL}}

InitPaired ==
    /\ component = "paired"
    /\ PrOthersIdle
    /\ redcap_data \in RedcapTables
    /\ first_data \in FirstTables
    /\ second_data \in SecondTables
    /\ study_group \in StudyGroups
    /\ paired = NotCompared

\* are_time_points_different_parametric for one choice of the oracle; the
\* verdict on the study group's series is kept beside the verdict on the
\* samples that were checked
are_time_points_different_parametric(normal_samples, p_value, effect_size) ==
    LET series == OrdinalSeries
        normality ==
            [checked |-> _is_data_normally_distributed(NormalityCheckSamples,
                                                       normal_samples),
             study_group |-> _is_data_normally_distributed(
                                <<ColumnOf(series[1]), ColumnOf(series[2])>>,
                                normal_samples)]
    IN  IF normality.checked
        THEN Compared("parametric", "Exception", NoSeries, normality, None)
        ELSE Compared("parametric", "", series, normality,
                      Some(PairedWilcoxonResult(p_value, effect_size)))

\* the samples the oracle may be asked about
OracleSamples ==
    Range(NormalityCheckSamples)
        \cup {ColumnOf(OrdinalSeries[1]), ColumnOf(OrdinalSeries[2])}

\* are_time_points_different_parametric, samples not all normal: the
\* result of are_time_points_different_ordinal
CompareParametric ==
    /\ paired = NotCompared
    /\ \E normal_samples \in SUBSET OracleSamples, p_value \in PValues, effect_size \in EffectSizes :
          LET compared ==
                  are_time_points_different_parametric(normal_samples, p_value, effect_size)
          IN  /\ compared.raised = ""
              /\ paired' = compared
    /\ UNCHANGED <<redcap_data, first_data, second_data, study_group>>
    /\ PrFrame

\* are_time_points_different_parametric, samples normal: "Should use
\* paired t-test"
CompareParametricRaises ==
    /\ paired = NotCompared
    /\ \E normal_samples \in SUBSET OracleSamples, p_value \in PValues, effect_size \in EffectSizes :
          LET compared ==
                  are_time_points_different_parametric(normal_samples, p_value, effect_size)
          IN  /\ compared.raised # ""
              /\ paired' = compared
    /\ UNCHANGED <<redcap_data, first_data, second_data, study_group>>
    /\ PrFrame

CompareOrdinal ==
    /\ paired = NotCompared
    /\ \E p_value \in PValues, effect_size \in EffectSizes :
          paired' = Compared("ordinal", "", OrdinalSeries, NotNormal,
                             Some(PairedWilcoxonResult(p_value, effect_size)))
    /\ UNCHANGED <<redcap_data, first_data, second_data, study_group>>
    /\ PrFrame

CompareCategorical ==
    /\ paired = NotCompared
    /\ \E p_value \in PValues, effect_size \in EffectSizes :
          LET compared == are_time_points_different_categorical(p_value, effect_size)
          IN  /\ compared.raised = ""
              /\ paired' = compared
    /\ UNCHANGED <<redcap_data, first_data, second_data, study_group>>
    /\ PrFrame

CompareCategoricalRaises ==
    /\ paired = NotCompared
    /\ \E p_value \in PValues, effect_size \in EffectSizes :
          LET compared == are_time_points_different_categorical(p_value, effect_size)
          IN  /\ compared.raised # ""
              /\ paired' = compared
    /\ UNCHANGED <<redcap_data, first_data, second_data, study_group>>
    /\ PrFrame

NextPaired ==
    \/ CompareParametric
    \/ CompareParametricRaises
    \/ CompareOrdinal
    \/ CompareCategorical
    \/ CompareCategoricalRaises

SpecPaired == InitPaired /\ [][NextPaired]_vars

(***************************************************************************)
(* Claims on the paired time-point comparisons                             *)
(***************************************************************************)
ValueIn(frame, id) ==
    frame[CHOOSE i \in DOMAIN frame : frame[i].participant_id = id].value

\* participants of the study group with a non-null value in both tables
PairedParticipantsOfGroup ==
    {id \in Ids(first_data) \cap Ids(second_data) :
        /\ id \in DOMAIN redcap_data
        /\ redcap_data[id] = study_group
        /\ ValueIn(first_data, id) # NULL
        /\ ValueIn(second_data, id) # NULL}

PairedFirstValues == {ValueIn(first_data, id) : id \in PairedParticipantsOfGroup}
PairedSecondValues == {ValueIn(second_data, id) : id \in PairedParticipantsOfGroup}

\* C18: are_time_points_different_categorical returns p = NaN and
\* effect = NaN with the note "No paired data" when no participant is
\* paired, p = 1 and effect = 1 with the note "Same paired data" when the
\* crosstab is 1x1, and raises without a result when the crosstab has more
\* than 2 rows or more than 2 columns.
C18_CategoricalDegenerateCases ==
    (component = "paired" /\ paired.comparison = "categorical") =>
        LET rows == Cardinality(PairedFirstValues)
            columns == Cardinality(PairedSecondValues)
        IN  /\ PairedParticipantsOfGroup = {} =>
                  /\ paired.raised = ""
                  /\ paired.result = Some(McNemarResult(nan, nan, "No paired data"))
            /\ (rows = 1 /\ columns = 1) =>
                  /\ paired.raised = ""
                  /\ paired.result
                        = Some(McNemarResult(Float(1000), Float(1000), "Same paired data"))
            /\ (rows > 2 \/ columns > 2) =>
                  /\ paired.raised = "Exception"
                  /\ paired.result = None

\* a crosstab of two rows and three columns refused
C18_Witness ==
    /\ component = "paired"
    /\ paired.comparison = "categorical"
    /\ Cardinality(PairedFirstValues) = 2
    /\ Cardinality(PairedSecondValues) = 3
    /\ paired.raised = "Exception"

\* C19: are_time_points_different_parametric raises and returns no result
\* whenever the two paired samples of the study group both pass the
\* normality check; otherwise it returns a Wilcoxon signed-rank result for
\* the study group's pairs.
C19_NormalGroupSamplesRaise ==
    (component = "paired" /\ paired.comparison = "parametric") =>
        IF paired.samples_are_normal.study_group
        THEN paired.raised = "Exception" /\ paired.result = None
        ELSE /\ paired.raised = ""
             /\ paired.result # None
             /\ paired.result[1].statistic = "wilcoxon"
             /\ Ids(paired.first_series) = PairedParticipantsOfGroup

\* C20: the two series handed to the paired test hold exactly the
\* participants of the study group with a non-null value in both time
\* points, each once, with their values, and in the same order: position k
\* of both series belongs to the same participant.
C20_PairedSeriesAligned ==
    (component = "paired" /\ paired.comparison # ""
        /\ (paired.raised = "" \/ paired.comparison = "categorical")) =>
        /\ Ids(paired.first_series) = PairedParticipantsOfGroup
        /\ Ids(paired.second_series) = PairedParticipantsOfGroup
        /\ Len(paired.first_series) = Cardinality(PairedParticipantsOfGroup)
        /\ Len(paired.second_series) = Cardinality(PairedParticipantsOfGroup)
        /\ \A k \in DOMAIN paired.first_series :
              /\ paired.first_series[k].participant_id
                    = paired.second_series[k].participant_id
              /\ paired.first_series[k].value
                    = ValueIn(first_data, paired.first_series[k].participant_id)
              /\ paired.second_series[k].value
                    = ValueIn(second_data, paired.second_series[k].participant_id)

\* two pairs compared by the Wilcoxon test, the second table in descending
\* order, one participant null at one time point and one of the other group
C20_Witness ==
    /\ component = "paired"
    /\ paired.comparison = "ordinal"
    /\ Len(paired.first_series) = 2
    /\ second_data[1].participant_id = "p3"
    /\ redcap_data["p3"] = "Counseling"
    /\ study_group = "PharMe"

(***************************************************************************)
(* Comprehension mapper: maybe_map_comprehension_data                      *)
(***************************************************************************)
MaxMapRows == 2
MaxMapRuns == 2

\* the question column of the rows; the participant column passes through
\* _get_comprehension_result unchanged
MappedColumn == MedicationQuestion("ibuprofen")

\* get_pharme_id(redcap_users, reveal_ehive_id(participant_id_map, id))
get_pharme_id(participant_id) ==
    CASE participant_id = "p1" -> "PharMe0001"
      [] participant_id = "p2" -> "PharMe3397"
      [] participant_id = "p3" -> "PharMe1060"

\* the logs opened for appending
WriteLogHeadersAppends(log) == log

\* _write_log_headers opens both logs with "w": only the header is left
_write_log_headers(log) == <<>>

\* the list as it was collected
MissingIdListsWithRepeats(missing) == {missing}

\* set(missing_comprehension_data): the ids a warning may list, in any
\* order of the set
MissingIdLists(missing) ==
    {ids \in SeqsUpTo(Range(missing), Len(missing)) :
        Range(ids) = Range(missing) /\ Len(ids) = Cardinality(Range(missing))}

ScoringErrors == {"Exception", "AttributeError"}

\* the loop over explicit_comprehension_results.iterrows(), from row i on
RECURSIVE MapRows(_, _, _)
MapRows(results, i, acc) ==
    IF i > Len(results) \/ acc.raised # "" THEN acc
    ELSE
      LET participant_result == results[i]
          participant_id == participant_result.participant_id
          pharme_id == get_pharme_id(participant_id)
      IN  IF pharme_id \notin DOMAIN comprehension_data
          THEN MapRows(results, i + 1, [acc EXCEPT !.missing = Append(@, pharme_id)])
          ELSE IF value_is_nan(participant_result.answer)
          THEN MapRows(results, i + 1,
                       [acc EXCEPT !.results = Append(@, participant_result)])
          ELSE
            LET outcome == GetComprehensionResult(participant_id, pharme_id,
                               participant_result.answer,
                               comprehension_data[pharme_id], MappedColumn)
            IN  IF outcome.result \in ScoringErrors
                THEN [acc EXCEPT !.raised = outcome.result]
                ELSE MapRows(results, i + 1,
                             [acc EXCEPT
                                 !.results = Append(@, [participant_id |-> participant_id,
                                                        answer |-> outcome.result]),
                                 !.log = @ \o outcome.row,
                                 !.secret = @ \o outcome.secret])

\* the preprocessing of one run, after the staleness check
Preprocessing ==
    MapRows(explicit_results, 1,
            [results |-> <<>>, log |-> _write_log_headers(comprehension_log),
             secret |-> _write_log_headers(secret_log), missing |-> <<>>,
             raised |-> ""])

\* the output file exists and has as many rows as the questionnaire data
AllDataPresent ==
    /\ stored_results # None
    /\ Len(stored_results[1]) = Len(explicit_results)

\* what a run leaves behind
Run(recomputed, raised, output, log, secret, run_warnings) ==
    [input |-> explicit_results,
     stale |-> stored_results = None \/ stored_input # Some(explicit_results),
     recomputed |-> recomputed, raised |-> raised, output |-> output,
     log |-> log, secret |-> secret, warnings |-> run_warnings]

(* ---- inputs ---- *)
Position(participant_id) ==
    CHOOSE i \in DOMAIN ParticipantOrder : ParticipantOrder[i] = participant_id

\* rows of participants in id order; a participant may have several rows
QuestionnaireTables ==
    {rows \in SeqsUpTo([participant_id : Range(ParticipantOrder),
                        answer : YesNoAnswers \cup {NULL}], MaxMapRows) :
        \A i \in 1..(Len(rows) - 1) :
            Position(rows[i].participant_id) <= Position(rows[i + 1].participant_id)}

MapGroundTruth(genotype) ==
    [genes |-> [g \in Genes |->
                   IF g = "CYP2C9"
                   THEN [genotype |-> genotype, phenotype |-> Metabolizer("Normal")]
                   ELSE [genotype |-> "*1/*1",
                         phenotype |-> IF g = "SLCO1B1" THEN Function("Normal")
                                       ELSE Metabolizer("Normal")]],
     medications |-> [m \in Medications |-> "false"]]

\* the first participant has a record, the second may have none, the third
\* may have none or one with a genotype the activity-score table lacks
GroundTruthFiles ==
    {[id \in {"PharMe0001"} \cup second \cup DOMAIN third |->
         IF id \in DOMAIN third THEN MapGroundTruth(third[id])
         ELSE MapGroundTruth("*1/*1")] :
        second \in {{}, {"PharMe3397"}},
        third \in {<<>>} \cup [{"PharMe1060"} -> {"*1/*1", "*1/*8"}]}

MapRedcapTables ==
    {[id \in Range(ParticipantOrder) |->
         CASE id = "p1" -> "PharMe"
           [] id = "p2" -> "Counseling"
           [] id = "p3" -> group] : group \in {"PharMe", NULL}}

InitMapper ==
    /\ component = "mapper"
    /\ MpOthersIdle
    /\ redcap_data \in MapRedcapTables
    /\ explicit_results \in QuestionnaireTables
    /\ comprehension_data \in GroundTruthFiles
    /\ stored_results = None
    /\ stored_input = None
    /\ comprehension_log = <<>>
    /\ secret_log = <<>>
    /\ map_runs = <<>>

\* the output is there with all rows: "Loaded preprocessed comprehension data"
LoadPreprocessed ==
    /\ Len(map_runs) < MaxMapRuns
    /\ AllDataPresent
    /\ map_runs' = Append(map_runs,
                          Run(FALSE, "", stored_results, comprehension_log, secret_log, <<>>))
    /\ UNCHANGED <<redcap_data, explicit_results, comprehension_data, stored_results,
                   stored_input, comprehension_log, secret_log>>
    /\ MpFrame

\* the logs are reset, every row is scored, the missing ids are warned of
\* once and the output is written
Preprocess ==
    /\ Len(map_runs) < MaxMapRuns
    /\ ~AllDataPresent
    /\ Preprocessing.raised = ""
    /\ \E ids \in MissingIdLists(Preprocessing.missing) :
          map_runs' = Append(map_runs,
              Run(TRUE, "", Some(Preprocessing.results), Preprocessing.log,
                  Preprocessing.secret, IF ids = <<>> THEN <<>> ELSE <<ids>>))
    /\ stored_results' = Some(Preprocessing.results)
    /\ stored_input' = Some(explicit_results)
    /\ comprehension_log' = Preprocessing.log
    /\ secret_log' = Preprocessing.secret
    /\ UNCHANGED <<redcap_data, explicit_results, comprehension_data>>
    /\ MpFrame

\* an analysis raised: the logs hold what was written so far, no output is
\* written and no warning issued
PreprocessRaises ==
    /\ Len(map_runs) < MaxMapRuns
    /\ ~AllDataPresent
    /\ Preprocessing.raised # ""
    /\ map_runs' = Append(map_runs,
                          Run(TRUE, Preprocessing.raised, stored_results,
                              Preprocessing.log, Preprocessing.secret, <<>>))
    /\ comprehension_log' = Preprocessing.log
    /\ secret_log' = Preprocessing.secret
    /\ UNCHANGED <<redcap_data, explicit_results, comprehension_data, stored_results,
                   stored_input>>
    /\ MpFrame

\* between two runs the questionnaire data change: an answer is altered, a
\* row is added at the end or the last row is removed
ChangeQuestionnaire ==
    /\ map_runs # <<>>
    /\ Len(map_runs) < MaxMapRuns
    /\ map_runs[Len(map_runs)].input = explicit_results
    /\ \E changed \in QuestionnaireTables :
          /\ \/ /\ Len(changed) = Len(explicit_results)
                /\ Cardinality({i \in DOMAIN changed : changed[i] # explicit_results[i]}) = 1
                /\ \A i \in DOMAIN changed :
                      changed[i].participant_id = explicit_results[i].participant_id
             \/ /\ Len(changed) = Len(explicit_results) + 1
                /\ SubSeq(changed, 1, Len(explicit_results)) = explicit_results
             \/ /\ Len(changed) = Len(explicit_results) - 1
                /\ changed = SubSeq(explicit_results, 1, Len(changed))
          /\ explicit_results' = changed
    /\ UNCHANGED <<redcap_data, comprehension_data, stored_results, stored_input,
                   comprehension_log, secret_log, map_runs>>
    /\ MpFrame

NextMapper == LoadPreprocessed \/ Preprocess \/ PreprocessRaises \/ ChangeQuestionnaire

SpecMapper == InitMapper /\ [][NextMapper]_vars

(***************************************************************************)
(* Claims on the comprehension mapper                                      *)
(***************************************************************************)
\* run i and the next run had the same questionnaire data
SameInput(i) == map_runs[i].input = map_runs[i + 1].input

\* C11: when maybe_map_comprehension_data runs again on unchanged inputs,
\* the scored output is the table the run before left and the logs hold
\* the entries the run before left, none of them twice.
C11_SecondRunChangesNothing ==
    component = "mapper" =>
        \A i \in 1..(Len(map_runs) - 1) :
            SameInput(i) =>
                /\ map_runs[i + 1].output = map_runs[i].output
                /\ map_runs[i + 1].log = map_runs[i].log
                /\ map_runs[i + 1].secret = map_runs[i].secret

\* two runs on the same data that both preprocessed, with a log entry
C11_Witness ==
    /\ component = "mapper"
    /\ Len(map_runs) = 2
    /\ SameInput(1)
    /\ map_runs[1].recomputed /\ map_runs[1].raised = ""
    /\ map_runs[2].recomputed
    /\ map_runs[2].log # <<>>

\* C12: a run recomputes (resets the logs, rewrites the output) exactly
\* when the stored output is stale: there is none, or the questionnaire
\* data differ from the data it was scored from by added, removed or
\* altered answers.
C12_RecomputesIffStale ==
    component = "mapper" =>
        \A i \in DOMAIN map_runs : map_runs[i].recomputed <=> map_runs[i].stale

\* the participants of a run's input without a ground-truth record
MissingIn(run) ==
    {get_pharme_id(run.input[i].participant_id) : i \in
        {i \in DOMAIN run.input :
            get_pharme_id(run.input[i].participant_id) \notin DOMAIN comprehension_data}}

RowsWithRecord(run) ==
    SelectSeq(run.input,
              LAMBDA row : get_pharme_id(row.participant_id) \in DOMAIN comprehension_data)

DuplicateLedgers ==
    {write_data_frame(
        <<RowData("study_groups", "wrong_answers_t0", "Wrong answers",
                  TTestResult(Float(30), Float(500))),
          RowData("study_groups", "wrong_answers_t0", "Wrong answers",
                  FisherResult(Float(1000), nan))>> \o others) :
        others \in {<<>>,
                    <<RowData("time_points", "comprehension_score_t0",
                              "Comprehension score",
                              McNemarResult(nan, nan, "No paired data"))>>}}

InitLedgerDuplicates ==
    /\ component = "ledger"
    /\ LgOthersIdle
    /\ results_table \in DuplicateLedgers
    /\ ledger_warnings = <<>>
    /\ upserts = <<>>

SpecLedgerDuplicates == InitLedgerDuplicates /\ [][NextLedger]_vars

\* the rows of the file with the key of row u
RowsWithKey(u) == {k \in DOMAIN results_table.rows : SameKey(results_table.rows[k], u)}

UpsertOnDuplicatesWarnsOnly ==
    upserts' # upserts =>
        LET u == upserts'[Len(upserts')]
        IN  Cardinality(RowsWithKey(u)) > 1 =>
                /\ results_table' = results_table
                /\ ledger_warnings' = Append(ledger_warnings, <<u.comparison, u.item>>)

\* C24: an upsert whose (comparison kind, item) matches more than one row
\* of the ledger prints a warning and leaves every row of the ledger as it
\* was: the new result is neither appended nor written over a matching row.
C24_DuplicatesLeftAlone ==
    [][component = "ledger" => UpsertOnDuplicatesWarnsOnly]_vars

\* an upsert on the doubled key with a result neither row holds: warned,
\* three rows as before
C24_Witness ==
    /\ component = "ledger"
    /\ results_table \in DuplicateLedgers
    /\ Len(results_table.rows) = 3
    /\ ledger_warnings = << <<"study_groups", "wrong_answers_t0">> >>
    /\ Len(upserts) = 1
    /\ upserts[1].statistic = "mcnemar"

(***************************************************************************)
(* More claims on the non-inferiority test                                 *)
(***************************************************************************)
\* C25: test_non_inferiority_between_study_groups returns a single p-value
\* on both branches, the t-test branch for normal samples and the
\* Mann-Whitney-U branch otherwise, so that analyze_comprehension can
\* compare it with NON_INFERIORITY_ALPHA.
C25_ReturnsSinglePValue ==
    component = "non_inferiority" =>
        \A i \in DOMAIN runs : runs[i].returned.kind = "float"

(***************************************************************************)
(* More claims on the paired time-point comparisons                        *)
(***************************************************************************)
\* the categorical comparison got past its three early exits: McNemar's
\* test and the phi coefficient were computed on the crosstab
ReachedMcNemar ==
    /\ component = "paired"
    /\ paired.comparison = "categorical"
    /\ paired.raised = ""
    /\ paired.result # None
    /\ paired.result[1].notes = ""

\* C26: every crosstab on which are_time_points_different_categorical runs
\* McNemar's test and computes phi is exactly 2x2; every other shape is
\* short-circuited to a degenerate result or rejected before the test.
C26_McNemarOnlyOnTwoByTwo ==
    ReachedMcNemar =>
        /\ Cardinality(CrosstabIndex(paired.first_series)) = 2
        /\ Cardinality(CrosstabColumns(paired.second_series)) = 2

(***************************************************************************)
(* More claims on the time-point resolver                                  *)
(***************************************************************************)
\* the participants with rows in the survey that do not have exactly one
\* row in the progress table
WithoutUniqueProgress ==
    {survey_results[i].participant_id : i \in
        {i \in DOMAIN survey_results :
            Cardinality({k \in DOMAIN progress_data :
                            progress_data[k].participant_id
                                = survey_results[i].participant_id}) # 1}}

\* C27: filter_results_by_time_point returns a table only if every
\* participant with rows in the survey has exactly one progress row; when
\* the loop comes to a participant with none or several it raises the
\* data-integrity error at once, with no table returned, and never passes
\* the participant over.
C27_NotUniqueIsFatal ==
    /\ [](component = "time_point" =>
             (tp_status = "returned" => WithoutUniqueProgress = {}))
    /\ [][(component = "time_point" /\ Visiting
              /\ Head(pending) \in WithoutUniqueProgress)
             => (tp_status' = "raised" /\ pending' = pending)]_vars

\* a row was selected for the first participant before the error for the
\* second, who has no progress row
C27_Witness ==
    /\ component = "time_point"
    /\ tp_status = "raised"
    /\ Len(time_point_data) = 1
    /\ Head(pending) \in WithoutUniqueProgress
    /\ \A k \in DOMAIN progress_data : progress_data[k].participant_id # Head(pending)

(***************************************************************************)
(* The reader of the interesting results                                   *)
(* (utils/output_formatting.py get_interesting_comparison_results)         *)
(***************************************************************************)
ALPHA == 50

\* a float comparison: with NaN on the left it is false
LessThan(value, thousandths) == value # nan /\ value[1] < thousandths

\* EffectInterpretation.name.lower()
NameLower(effect_interpretation) ==
    CASE effect_interpretation = "SMALL" -> "small"
      [] effect_interpretation = "MEDIUM" -> "medium"
      [] effect_interpretation = "LARGE" -> "large"

\* get_interesting_comparison_results: whether it raised, the comparison's
\* rows with the two added columns, and the significant ones it returns
get_interesting_comparison_results(file, comparison) ==
    LET results_data == load_data_from_file(file)
        comparison_data == SelectSeq(results_data,
                                     LAMBDA row : row.comparison = comparison)
        effect_interpretations ==
            [i \in DOMAIN comparison_data |->
                interpret_effect(comparison_data[i].effect_method,
                                 comparison_data[i].effect_size)]
    IN  IF \E i \in DOMAIN comparison_data : effect_interpretations[i] = "Exception"
        THEN [comparison |-> comparison, raised |-> TRUE,
              labelled |-> <<>>, returned |-> <<>>]
        ELSE
          LET labelled ==
                [i \in DOMAIN comparison_data |->
                    [row |-> comparison_data[i],
                     is_significant |-> LessThan(comparison_data[i].p_value, ALPHA),
                     effect_interpretation |-> NameLower(effect_interpretations[i])]]
          IN  [comparison |-> comparison, raised |-> FALSE,
               labelled |-> labelled,
               returned |-> SelectSeq(labelled, LAMBDA l : l.is_significant)]

NotRead == [comparison |-> "none", raised |-> FALSE, labelled |-> <<>>, returned |-> <<>>]

InitInteresting ==
    /\ component = "interesting"
    /\ IrOthersIdle
    /\ results_table = NoFile
    /\ ledger_warnings = <<>>
    /\ upserts = <<>>
    /\ interesting = NotRead

\* the comparisons write their results before the ledger is read
UpsertBeforeReading ==
    /\ interesting = NotRead
    /\ Upsert

GetInterestingComparisonResults ==
    /\ interesting = NotRead
    /\ results_table.exists
    /\ \E comparison \in Comparisons :
          interesting' = get_interesting_comparison_results(results_table, comparison)
    /\ UNCHANGED <<results_table, ledger_warnings, upserts>>
    /\ IrFrame

NextInteresting == UpsertBeforeReading \/ GetInterestingComparisonResults

SpecInteresting == InitInteresting /\ [][NextInteresting]_vars

(* ---- claims ---- *)
\* the rows of the comparison read whose effect size is NaN
DegenerateRowsRead ==
    {i \in DOMAIN interesting.labelled :
        interesting.labelled[i].row.effect_size = nan}

\* C30: interpret_effect gives SMALL for a NaN effect under each of the
\* recognised methods, and get_interesting_comparison_results does not
\* raise on a ledger that holds rows with a NaN effect size: it labels
\* each of them "small".
C30_NanEffectIsSmall ==
    /\ \A m \in Range(EFFECT_MEASURES \o ASSOCIATION_MEASURES) :
          interpret_effect(m, nan) = "SMALL"
    /\ (component = "interesting" /\ interesting # NotRead) =>
          /\ ~interesting.raised
          /\ Len(interesting.labelled)
                = Cardinality({i \in DOMAIN results_table.rows :
                     results_table.rows[i].comparison = interesting.comparison})
          /\ \A i \in DegenerateRowsRead :
                interesting.labelled[i].effect_interpretation = "small"

\* a ledger with a significant row and a row with a NaN effect size was read
C30_Witness ==
    /\ component = "interesting"
    /\ interesting # NotRead
    /\ DegenerateRowsRead # {}
    /\ Len(interesting.returned) >= 1
    /\ Len(interesting.labelled) > Len(interesting.returned)

(***************************************************************************)
(* More claims on the comprehension scorer                                 *)
(***************************************************************************)
\* C23: a participant without a study group is a recoverable gap during
\* scoring: an analysis that ran for such a participant ended with a
\* verdict, whether or not it had a correctness-log entry to write.
C23_NoStudyGroupDoesNotAbort ==
    (/\ component = "scorer"
     /\ call # NoCall
     /\ get_study_group(ScoredParticipant) = NULL)
        => call.result # "AttributeError"

(***************************************************************************)
(* The progress combiner and survey cleaner (survey_results/progress.py)   *)
(***************************************************************************)
\* _normalize_time_point: the part of a time marker before the first space
_normalize_time_point(time_point_) ==
    CASE time_point_ = "2024-01-01 09:00:00" -> "2024-01-01"
      [] time_point_ = "2024-01-01 10:00:00" -> "2024-01-01"
      [] time_point_ = "2024-02-01 09:00:00" -> "2024-02-01"
      [] time_point_ = "2024-02-01 10:00:00" -> "2024-02-01"
      [] OTHER -> time_point_

\* _normalize_survey_name on the column names of the progress files: the
\* survey type before "::" and the "-app" and "-counseling" parts are taken off
_normalize_survey_name(column_name) ==
    CASE column_name = "baseline::comprehension_t0" -> "comprehension_t0"
      [] column_name = "comprehension-app_t1" -> "comprehension_t1"
      [] column_name = "comprehension-counseling_t1" -> "comprehension_t1"
      [] OTHER -> column_name

_normalize_survey_names(table) ==
    [i \in DOMAIN table |->
        [c \in {_normalize_survey_name(k) : k \in DOMAIN table[i]} |->
            table[i][CHOOSE k \in DOMAIN table[i] : _normalize_survey_name(k) = c]]]

ProgressColumns == <<"comprehension_t0", "comprehension_t1">>

OfParticipant(table, participant_id) ==
    SelectSeq(table, LAMBDA row : row.participant_id = participant_id)

\* the columns of a table, the participant ID aside; an empty table of the
\* model has the columns of its file
ColumnsOr(table, columns) ==
    IF table = <<>> THEN columns ELSE DOMAIN table[1] \ {"participant_id"}

\* the rows the outer join gives for one key: every pair of a left and a
\* right row, and NaN cells for the side that has no row
MergedOfKey(left, right, left_columns, right_columns, participant_id) ==
    LET key == [c \in {"participant_id"} |-> participant_id]
        left_rows == IF OfParticipant(left, participant_id) = <<>>
                     THEN <<key @@ [c \in left_columns |-> NULL]>>
                     ELSE OfParticipant(left, participant_id)
        right_rows == IF OfParticipant(right, participant_id) = <<>>
                      THEN <<key @@ [c \in right_columns |-> NULL]>>
                      ELSE OfParticipant(right, participant_id)
    IN  [k \in 1..(Len(left_rows) * Len(right_rows)) |->
            left_rows[((k - 1) \div Len(right_rows)) + 1]
                @@ right_rows[((k - 1) % Len(right_rows)) + 1]]

RECURSIVE MergeFrom(_, _, _, _, _)
MergeFrom(left, right, left_columns, right_columns, order) ==
    IF order = <<>> THEN <<>>
    ELSE (IF OfParticipant(left, Head(order)) = <<>>
             /\ OfParticipant(right, Head(order)) = <<>>
          THEN <<>>
          ELSE MergedOfKey(left, right, left_columns, right_columns, Head(order)))
         \o MergeFrom(left, right, left_columns, right_columns, Tail(order))

\* DataFrame.merge(how="outer", on=PARTICIPANT_ID)
merge(left, right, left_columns, right_columns) ==
    MergeFrom(left, right, left_columns, right_columns, ParticipantOrder)

\* DataFrame.drop_duplicates: of rows equal in every column the first stays
RECURSIVE drop_duplicates(_)
drop_duplicates(table) ==
    IF table = <<>> THEN <<>>
    ELSE LET front == drop_duplicates(SubSeq(table, 1, Len(table) - 1))
         IN  IF table[Len(table)] \in Range(front) THEN front
             ELSE Append(front, table[Len(table)])

\* the overwrite loop written so that a cell that holds a value keeps it
OverwriteOnlyEmptyCells(combined_data, overwrites) ==
    IF \E id \in DOMAIN overwrites :
          /\ DOMAIN overwrites[id] # {}
          /\ Len(OfParticipant(combined_data, id)) # 1
    THEN [raised |-> TRUE, data |-> <<>>]
    ELSE [raised |-> FALSE,
          data |-> [i \in DOMAIN combined_data |->
                      [c \in DOMAIN combined_data[i] |->
                          IF /\ combined_data[i].participant_id \in DOMAIN overwrites
                             /\ c \in DOMAIN overwrites[combined_data[i].participant_id]
                             /\ combined_data[i][c] = NULL
                          THEN overwrites[combined_data[i].participant_id][c]
                          ELSE combined_data[i][c]]]]

\* the loop over manual_time_point_overwrites: it raises
\* ThisShouldNeverHappenError unless the participant has exactly one row
OverwriteTimePoints(combined_data, overwrites) ==
    IF \E id \in DOMAIN overwrites :
          /\ DOMAIN overwrites[id] # {}
          /\ Len(OfParticipant(combined_data, id)) # 1
    THEN [raised |-> TRUE, data |-> <<>>]
    ELSE [raised |-> FALSE,
          data |-> [i \in DOMAIN combined_data |->
                      [c \in DOMAIN combined_data[i] |->
                          IF /\ combined_data[i].participant_id \in DOMAIN overwrites
                             /\ c \in DOMAIN overwrites[combined_data[i].participant_id]
                          THEN overwrites[combined_data[i].participant_id][c]
                          ELSE combined_data[i][c]]]]

\* _combine_progress_data on the three progress files and the manual file
_combine_progress_data(baseline, pharme, counseling, overwrites) ==
    LET baseline_ == _normalize_survey_names(baseline)
        in_study_progress_data ==
            _normalize_survey_names(pharme) \o _normalize_survey_names(counseling)
        combined_data ==
            drop_duplicates(merge(baseline_, in_study_progress_data,
                                  ColumnsOr(baseline_, {"comprehension_t0"}),
                                  ColumnsOr(in_study_progress_data, {"comprehension_t1"})))
    IN  OverwriteTimePoints(combined_data, overwrites)

(* ---- cleaning a survey file ---- *)
\* the rows of one participant with their index and their normalized
\* time marker
ParticipantSurveyData(survey_data, participant_id) ==
    SelectSeq([i \in DOMAIN survey_data |->
                  [index |-> i,
                   row |-> [survey_data[i] EXCEPT
                              !.authored_at_gmt = _normalize_time_point(@)]]],
              LAMBDA entry : entry.row.participant_id = participant_id)

IndicesOf(entries) == [k \in DOMAIN entries |-> entries[k].index]

Message(kind, time_point_, participant_id) ==
    [kind |-> kind, time_point |-> time_point_, participant_id |-> participant_id]

\* the dates in their order, for date() > date()
LaterDate(first, second) ==
    <<first, second>> \in {<<"2024-02-01", "2024-01-01">>,
                           <<"2024-03-01", "2024-01-01">>,
                           <<"2024-03-01", "2024-02-01">>}

\* DataFrame.duplicated(keep=False).sum() on the rows without TIME_POINT
DuplicatedRows(entries) ==
    Cardinality({k \in DOMAIN entries :
        \E m \in DOMAIN entries :
            /\ m # k
            /\ entries[m].row.participant_id = entries[k].row.participant_id
            /\ entries[m].row.answer = entries[k].row.answer})

\* a uniqueness test that takes the rows with equal answers for one row
\* and removes nothing when the answers differ
UniqueTestKeepsDifferingRows(participant_id, participant_survey_data, time_point_, last_survey_modification) ==
    LET surveys_with_time_point ==
            SelectSeq(participant_survey_data,
                      LAMBDA entry : entry.row.authored_at_gmt = time_point_)
    IN  IF Len(surveys_with_time_point) > 1
           /\ DuplicatedRows(surveys_with_time_point) = Len(surveys_with_time_point)
        THEN [log |-> <<Message("removed_duplicate", time_point_, participant_id)>>,
              indices |-> IndicesOf(SubSeq(surveys_with_time_point, 1,
                                           Len(surveys_with_time_point) - 1))]
        ELSE [log |-> <<>>, indices |-> <<>>]

\* one turn of the loop of _test_that_valid_time_points_are_unique
UniqueTestOfTimePoint(participant_id, participant_survey_data, time_point_, last_survey_modification) ==
    LET surveys_with_time_point ==
            SelectSeq(participant_survey_data,
                      LAMBDA entry : entry.row.authored_at_gmt = time_point_)
    IN  IF Len(surveys_with_time_point) = 0
        THEN [log |-> IF LaterDate(last_survey_modification, time_point_)
                      THEN <<Message("not_found", time_point_, participant_id)>>
                      ELSE <<>>,
              indices |-> <<>>]
        ELSE IF Len(surveys_with_time_point) > 1
        THEN [log |-> <<Message("removed_duplicate", time_point_, participant_id)>>
                      \o (IF DuplicatedRows(surveys_with_time_point)
                               # Len(surveys_with_time_point)
                          THEN <<Message("rows_not_same", time_point_, participant_id)>>
                          ELSE <<>>),
              indices |-> IndicesOf(SubSeq(surveys_with_time_point, 1,
                                           Len(surveys_with_time_point) - 1))]
        ELSE [log |-> <<>>, indices |-> <<>>]

RECURSIVE _test_that_valid_time_points_are_unique(_, _, _, _)
_test_that_valid_time_points_are_unique(participant_id, participant_survey_data, valid_time_points, last_survey_modification) ==
    IF valid_time_points = <<>> THEN [log |-> <<>>, indices |-> <<>>]
    ELSE LET first == UniqueTestOfTimePoint(participant_id, participant_survey_data,
                          Head(valid_time_points), last_survey_modification)
             rest == _test_that_valid_time_points_are_unique(participant_id,
                          participant_survey_data, Tail(valid_time_points),
                          last_survey_modification)
         IN  [log |-> first.log \o rest.log, indices |-> first.indices \o rest.indices]

_test_that_time_points_are_valid(participant_id, participant_survey_data, valid_time_points) ==
    LET invalid == SelectSeq(participant_survey_data,
                       LAMBDA entry : entry.row.authored_at_gmt \notin Range(valid_time_points))
    IN  [log |-> [k \in DOMAIN invalid |->
                     Message("removed_not_in_progress",
                             invalid[k].row.authored_at_gmt, participant_id)],
         indices |-> IndicesOf(invalid)]

_test_time_point_validity(participant_id, participant_survey_data, valid_time_points, last_survey_modification) ==
    LET valid == _test_that_time_points_are_valid(participant_id,
                     participant_survey_data, valid_time_points)
        unique == _test_that_valid_time_points_are_unique(participant_id,
                     participant_survey_data, valid_time_points,
                     last_survey_modification)
    IN  [log |-> valid.log \o unique.log, indices |-> valid.indices \o unique.indices]

\* the normalized values of the participant's progress row that are not NaN
ValidTimePoints(survey_progress_data, participant_id) ==
    LET participant_progress_data == OfParticipant(survey_progress_data, participant_id)
        filled == SelectSeq(ProgressColumns,
                      LAMBDA column : ~value_is_nan(participant_progress_data[1][column]))
    IN  IF Len(participant_progress_data) = 0 THEN <<>>
        ELSE [k \in DOMAIN filled |->
                 _normalize_time_point(participant_progress_data[1][filled[k]])]

RECURSIVE _get_invalid_time_point_indices(_, _, _, _)
_get_invalid_time_point_indices(survey_data, survey_progress_data, participant_ids, last_survey_modification) ==
    IF participant_ids = <<>>
    THEN [raised |-> FALSE, log |-> <<>>, indices |-> <<>>]
    ELSE
      LET participant_id == Head(participant_ids)
          rest == _get_invalid_time_point_indices(survey_data, survey_progress_data,
                      Tail(participant_ids), last_survey_modification)
      IN  IF OfParticipant(survey_data, participant_id) = <<>> THEN rest
          ELSE IF Len(OfParticipant(survey_progress_data, participant_id)) > 1
          THEN [raised |-> TRUE, log |-> <<>>, indices |-> <<>>]
          ELSE IF rest.raised THEN rest
          ELSE
            LET new == _test_time_point_validity(participant_id,
                           ParticipantSurveyData(survey_data, participant_id),
                           ValidTimePoints(survey_progress_data, participant_id),
                           last_survey_modification)
            IN  [raised |-> FALSE, log |-> new.log \o rest.log,
                 indices |-> new.indices \o rest.indices]

\* DataFrame.drop(indices)
RECURSIVE drop(_, _)
drop(table, indices) ==
    IF table = <<>> THEN <<>>
    ELSE LET front == drop(SubSeq(table, 1, Len(table) - 1), indices)
         IN  IF Len(table) \in Range(indices) THEN front
             ELSE Append(front, table[Len(table)])

(* ---- inputs ---- *)
MaxSurveyRows == 3

BaselineRow(participant_id, time_point_) ==
    [c \in {"participant_id", "baseline::comprehension_t0"} |->
        IF c = "participant_id" THEN participant_id ELSE time_point_]
PharmeRow(participant_id, time_point_) ==
    [c \in {"participant_id", "comprehension-app_t1"} |->
        IF c = "participant_id" THEN participant_id ELSE time_point_]
CounselingRow(participant_id, time_point_) ==
    [c \in {"participant_id", "comprehension-counseling_t1"} |->
        IF c = "participant_id" THEN participant_id ELSE time_point_]

\* p1 is in the baseline file and may be in either arm's file or in both;
\* p2 is in the control arm's file only, or in none
BaselineFiles ==
    {<<BaselineRow("p1", t)>> : t \in {NULL, "2024-01-01 09:00:00"}}
PharmeFiles ==
    {<<>>} \cup {<<PharmeRow("p1", t)>> : t \in {NULL, "2024-02-01 09:00:00"}}
CounselingFiles ==
    {first \o second :
        first \in {<<>>, <<CounselingRow("p1", "2024-02-01 09:00:00")>>},
        second \in {<<>>, <<CounselingRow("p2", "2024-02-01 10:00:00")>>}}

NoOverwrites == [id \in {} |-> id]
ManualOverwrites ==
    {NoOverwrites,
     [id \in {"p1"} |-> [c \in {"comprehension_t1"} |-> "2024-02-01 10:00:00"]],
     [id \in {"p2"} |-> [c \in {"comprehension_t0"} |-> "2024-01-01 10:00:00"]]}

CleanedSurveyRow(participant_id, time_point_, answer) ==
    [participant_id |-> participant_id, authored_at_gmt |-> time_point_,
     answer |-> answer]
CleanedSurveyRows ==
    {CleanedSurveyRow("p1", "2024-01-01 09:00:00", "a"),
     CleanedSurveyRow("p1", "2024-01-01 10:00:00", "b"),
     CleanedSurveyRow("p1", "2024-02-01 09:00:00", "a"),
     CleanedSurveyRow("p2", "2024-01-01 09:00:00", "a")}
SurveyFiles == SeqsUpTo(CleanedSurveyRows, MaxSurveyRows)

ParticipantIdLists == {<<"p1">>, <<"p1", "p2">>, <<"p2", "p1">>}
LastSurveyModifications == {"2024-01-01", "2024-03-01"}

NoProgressFile == [exists |-> FALSE, rows |-> <<>>]
\* what the call did; the listed participants are recorded where the call
\* came to use them
NotCleaned ==
    [status |-> "pending", participant_ids |-> <<>>, survey_data |-> <<>>,
     log |-> <<>>]
Did(status, participant_ids, survey_data, log) ==
    [status |-> status, participant_ids |-> participant_ids,
     survey_data |-> survey_data, log |-> log]

Combined ==
    _combine_progress_data(baseline_progress_data, pharme_progress_data,
                           counseling_progress_data, manual_time_point_overwrites)

\* PROGRESS_DATA_FILE is absent, or it is the one an earlier call wrote
\* from these progress files
InitProgress ==
    /\ component = "progress"
    /\ PgOthersIdle
    /\ baseline_progress_data \in BaselineFiles
    /\ pharme_progress_data \in PharmeFiles
    /\ counseling_progress_data \in CounselingFiles
    /\ manual_time_point_overwrites \in ManualOverwrites
    /\ survey_file \in SurveyFiles
    /\ \/ progress_file = NoProgressFile
       \/ /\ ~Combined.raised
          /\ progress_file = [exists |-> TRUE, rows |-> Combined.data]
    /\ cleaned = NotCleaned

(* ---- maybe_combine_progress_data_and_clean_surveys ---- *)
\* the progress data file is newer than the progress files
ProgressUpToDate ==
    /\ cleaned = NotCleaned
    /\ progress_file.exists
    /\ cleaned' = Did("up_to_date", <<>>, survey_file, <<>>)
    /\ UNCHANGED <<baseline_progress_data, pharme_progress_data,
                   counseling_progress_data, manual_time_point_overwrites,
                   progress_file, survey_file>>
    /\ PgFrame

\* an overwrite names a participant without exactly one combined row
CombineRaises ==
    /\ cleaned = NotCleaned
    /\ ~progress_file.exists
    /\ Combined.raised
    /\ cleaned' = Did("combine_raised", <<>>, survey_file, <<>>)
    /\ UNCHANGED <<baseline_progress_data, pharme_progress_data,
                   counseling_progress_data, manual_time_point_overwrites,
                   progress_file, survey_file>>
    /\ PgFrame

\* the survey files did not change: the progress data are written only
CombineOnly ==
    /\ cleaned = NotCleaned
    /\ ~progress_file.exists
    /\ ~Combined.raised
    /\ progress_file' = [exists |-> TRUE, rows |-> Combined.data]
    /\ cleaned' = Did("combined", <<>>, survey_file, <<>>)
    /\ UNCHANGED <<baseline_progress_data, pharme_progress_data,
                   counseling_progress_data, manual_time_point_overwrites,
                   survey_file>>
    /\ PgFrame

\* a listed participant of the survey has several rows of progress
CleanRaises ==
    /\ cleaned = NotCleaned
    /\ ~progress_file.exists
    /\ ~Combined.raised
    /\ \E participant_ids \in ParticipantIdLists,
          last_survey_modification \in LastSurveyModifications :
          /\ _get_invalid_time_point_indices(survey_file, Combined.data,
                 participant_ids, last_survey_modification).raised
          /\ cleaned' = Did("clean_raised", participant_ids, survey_file, <<>>)
    /\ progress_file' = [exists |-> TRUE, rows |-> Combined.data]
    /\ UNCHANGED <<baseline_progress_data, pharme_progress_data,
                   counseling_progress_data, manual_time_point_overwrites,
                   survey_file>>
    /\ PgFrame

\* the progress data are written, the survey file is cleaned and the log
\* of the removed entries is written
CombineAndClean ==
    /\ cleaned = NotCleaned
    /\ ~progress_file.exists
    /\ ~Combined.raised
    /\ \E participant_ids \in ParticipantIdLists,
          last_survey_modification \in LastSurveyModifications :
          LET invalid == _get_invalid_time_point_indices(survey_file, Combined.data,
                             participant_ids, last_survey_modification)
          IN  /\ ~invalid.raised
              /\ survey_file' = drop(survey_file, invalid.indices)
              /\ cleaned' = Did("cleaned", participant_ids, survey_file, invalid.log)
    /\ progress_file' = [exists |-> TRUE, rows |-> Combined.data]
    /\ UNCHANGED <<baseline_progress_data, pharme_progress_data,
                   counseling_progress_data, manual_time_point_overwrites>>
    /\ PgFrame

NextProgress ==
    \/ ProgressUpToDate
    \/ CombineRaises
    \/ CombineOnly
    \/ CleanRaises
    \/ CombineAndClean

SpecProgress == InitProgress /\ [][NextProgress]_vars

(* ---- claims ---- *)
\* this call wrote the progress data file
WroteProgress ==
    /\ component = "progress"
    /\ cleaned.status \in {"combined", "clean_raised", "cleaned"}

\* the values the progress files hold for a participant in a column, NaN
\* when the files of the column have no row of the participant
SourceValues(participant_id, column) ==
    LET found ==
          IF column = "comprehension_t0"
          THEN {row["baseline::comprehension_t0"] :
                   row \in {r \in Range(baseline_progress_data) :
                               r.participant_id = participant_id}}
          ELSE {row["comprehension-app_t1"] :
                   row \in {r \in Range(pharme_progress_data) :
                               r.participant_id = participant_id}}
               \cup {row["comprehension-counseling_t1"] :
                   row \in {r \in Range(counseling_progress_data) :
                               r.participant_id = participant_id}}
    IN  IF found = {} THEN {NULL} ELSE found

SourceParticipants ==
    {row.participant_id : row \in Range(baseline_progress_data)
                                     \cup Range(pharme_progress_data)
                                     \cup Range(counseling_progress_data)}

OverwrittenCells ==
    {<<id, c>> \in (DOMAIN manual_time_point_overwrites) \X Range(ProgressColumns) :
        c \in DOMAIN manual_time_point_overwrites[id]}

\* C21: in the combined progress data every cell a manual overwrite names
\* holds the overwrite's value, whatever the progress files held, and every
\* other cell holds what the outer join of the progress files gives: the
\* files' value for the participant, or NaN where a file has no row.
C21_OverwritesWinAndOnlyThey ==
    WroteProgress =>
        /\ \A cell \in OverwrittenCells :
              /\ Len(OfParticipant(progress_file.rows, cell[1])) = 1
              /\ OfParticipant(progress_file.rows, cell[1])[1][cell[2]]
                    = manual_time_point_overwrites[cell[1]][cell[2]]
        /\ {row.participant_id : row \in Range(progress_file.rows)} = SourceParticipants
        /\ \A id \in SourceParticipants, c \in Range(ProgressColumns) :
              <<id, c>> \notin OverwrittenCells =>
                 {row[c] : row \in Range(OfParticipant(progress_file.rows, id))}
                    = SourceValues(id, c)

\* an overwrite replaced a value of the progress files and the other
\* participant's row came through the join
C21_Witness ==
    /\ WroteProgress
    /\ <<"p1", "comprehension_t1">> \in OverwrittenCells
    /\ SourceValues("p1", "comprehension_t1") = {"2024-02-01 09:00:00"}
    /\ Len(OfParticipant(progress_file.rows, "p2")) = 1

\* C22: the progress data file this call wrote holds at most one row of
\* each participant.
C22_OneRowPerParticipant ==
    WroteProgress =>
        \A id \in SourceParticipants : Len(OfParticipant(progress_file.rows, id)) <= 1

\* the dates of the participant's progress values that are not NaN
CompletedDates(participant_id) ==
    {_normalize_time_point(row[c]) :
        <<row, c>> \in {rc \in Range(progress_file.rows) \X Range(ProgressColumns) :
                           /\ rc[1].participant_id = participant_id
                           /\ rc[1][rc[2]] # NULL}}

RemainingRows(participant_id) == OfParticipant(survey_file, participant_id)

\* the last row the survey file held of the participant on the date
LastOfDate(participant_id, date) ==
    LET rows == SelectSeq(OfParticipant(cleaned.survey_data, participant_id),
                    LAMBDA row : _normalize_time_point(row.authored_at_gmt) = date)
    IN  rows[Len(rows)]

\* C28: in a cleaned survey file every row of a listed participant has the
\* date of one of the participant's progress values that are not NaN, no
\* two rows of the participant have the same date, the row kept for a date
\* is the last the file held for it, and so the participant has no more
\* rows than progress values.
C28_CleanedRowsMatchProgress ==
    (component = "progress" /\ cleaned.status = "cleaned") =>
        \A id \in Range(cleaned.participant_ids) :
            LET rows == RemainingRows(id)
            IN  /\ \A k \in DOMAIN rows :
                      /\ _normalize_time_point(rows[k].authored_at_gmt)
                            \in CompletedDates(id)
                      /\ rows[k] = LastOfDate(id,
                                      _normalize_time_point(rows[k].authored_at_gmt))
                /\ \A k, m \in DOMAIN rows :
                      k # m => _normalize_time_point(rows[k].authored_at_gmt)
                                  # _normalize_time_point(rows[m].authored_at_gmt)
                /\ Len(rows) <= Cardinality(CompletedDates(id))

\* of three rows of a listed participant, two of one completed date with
\* different answers and one of a date not in the progress data, one is left
C28_Witness ==
    /\ component = "progress"
    /\ cleaned.status = "cleaned"
    /\ "p1" \in Range(cleaned.participant_ids)
    /\ Len(OfParticipant(cleaned.survey_data, "p1")) = 3
    /\ CompletedDates("p1") = {"2024-01-01"}
    /\ Len(RemainingRows("p1")) = 1
    /\ \E k \in DOMAIN cleaned.survey_data :
          /\ cleaned.survey_data[k].answer # RemainingRows("p1")[1].answer
          /\ _normalize_time_point(cleaned.survey_data[k].authored_at_gmt) = "2024-01-01"
    /\ \E k \in DOMAIN cleaned.survey_data :
          _normalize_time_point(cleaned.survey_data[k].authored_at_gmt) = "2024-02-01"

(***************************************************************************)
(* The comprehension analysis                                              *)
(* (analyses/comprehension.py analyze_comprehension)                       *)
(***************************************************************************)
ALL_COMPREHENSION_QUESTIONS_NUMBER == 10

COMPREHENSION_REMOVED_QUESTIONS ==
    <<"Which of the following genes is not included in your PGx test results?">>

\* the columns of the mapped comprehension data: three leading columns and
\* the ten questions
ComprehensionColumns ==
    <<"participant_id", "authored_at_gmt", "self_reported",
      "q1", "q2",
      "Which of the following genes is not included in your PGx test results?",
      "q4", "q5", "q6", "q7", "q8", "q9", "q10">>

\* Series.tail(n): the last n labels
tail(columns, n) ==
    SubSeq(columns, IF Len(columns) > n THEN Len(columns) - n + 1 ELSE 1, Len(columns))

\* Series.drop(labels) raises KeyError for a label the series does not have
DropRaises(columns, labels) == \E l \in Range(labels) : l \notin Range(columns)

\* participant_data.tail(ALL_COMPREHENSION_QUESTIONS_NUMBER).drop(drop_questions)
\* as [question, answer] entries
ParticipantResults(participant_data, drop_questions_) ==
    LET kept == SelectSeq(tail(ComprehensionColumns, ALL_COMPREHENSION_QUESTIONS_NUMBER),
                    LAMBDA column : column \notin Range(drop_questions_))
    IN  [k \in DOMAIN kept |-> [question |-> kept[k], answer |-> participant_data[kept[k]]]]

\* len(participant_results[participant_results == True])
ParticipantScore(participant_results) ==
    Len(SelectSeq(participant_results, LAMBDA entry : entry.answer = "True"))

\* wrong answers collected for the answers that are False only
WrongAnswersOnlyFalse(participant_id, participant_results, participant_score, questions_number) ==
    IF participant_score < questions_number
    THEN LET wrong == SelectSeq(participant_results,
                          LAMBDA entry : entry.answer = "False")
         IN  [k \in DOMAIN wrong |->
                 [participant_id |-> participant_id,
                  question |-> wrong[k].question, answer |-> wrong[k].answer]]
    ELSE <<>>

\* the rows appended to wrong_answers for one participant
WrongAnswersOf(participant_id, participant_results, participant_score, questions_number) ==
    IF participant_score < questions_number
    THEN LET wrong == SelectSeq(participant_results,
                          LAMBDA entry : entry.answer # "True")
         IN  [k \in DOMAIN wrong |->
                 [participant_id |-> participant_id,
                  question |-> wrong[k].question, answer |-> wrong[k].answer]]
    ELSE <<>>

(* ---- inputs ---- *)
\* the verdicts of one row: the first three questions vary, the other
\* seven are all correct or all wrong
VerdictRows ==
    {[c \in Range(tail(ComprehensionColumns, ALL_COMPREHENSION_QUESTIONS_NUMBER)) |->
         IF c = "q1" THEN v1
         ELSE IF c = "q2" THEN v2
         ELSE IF c \in Range(COMPREHENSION_REMOVED_QUESTIONS) THEN v3
         ELSE rest] :
       v1 \in {"True", "False", NULL}, v2 \in {"True", "False", NULL},
       v3 \in {"True", "False", NULL}, rest \in {"True", "False"}}

ComprehensionRow(participant_id, verdicts) ==
    [c \in Range(ComprehensionColumns) |->
        IF c = "participant_id" THEN participant_id
        ELSE IF c = "authored_at_gmt" THEN "2024-01-01 09:00:00"
        ELSE IF c = "self_reported" THEN "3"
        ELSE verdicts[c]]

\* filter_results_by_time_point gives one row per participant
ComprehensionResults ==
    {<<ComprehensionRow("p1", first), ComprehensionRow("p2", second)>> :
        first \in VerdictRows, second \in VerdictRows}

DropQuestionLists == {<<>>, COMPREHENSION_REMOVED_QUESTIONS, <<"q11">>}

AnalysisRedcapTables ==
    {[id \in {"p1", "p2"} |-> IF id = "p1" THEN "PharMe" ELSE group] :
        group \in {"Counseling", NULL}}

NotAnalyzed == [status |-> "running", scores_file |-> <<>>, returned |-> <<>>, result |-> ""]

InitAnalysis ==
    /\ component = "analysis"
    /\ AcOthersIdle
    /\ redcap_data \in AnalysisRedcapTables
    /\ comprehension_results \in ComprehensionResults
    /\ drop_questions \in DropQuestionLists
    /\ next_row = 1
    /\ participant_scores = <<>>
    /\ wrong_answers = <<>>
    /\ no_group_warnings = <<>>
    /\ analysis = NotAnalyzed

InLoop == analysis = NotAnalyzed /\ next_row \in DOMAIN comprehension_results

\* the participant has no study group: a warning, and on to the next row
WarnNoStudyGroup ==
    /\ InLoop
    /\ get_study_group(comprehension_results[next_row].participant_id) = NULL
    /\ no_group_warnings' = Append(no_group_warnings,
                                   comprehension_results[next_row].participant_id)
    /\ next_row' = next_row + 1
    /\ UNCHANGED <<redcap_data, comprehension_results, drop_questions,
                   participant_scores, wrong_answers, analysis>>
    /\ AcFrame

\* a question to drop is not among the last ten columns
DropRaisesKeyError ==
    /\ InLoop
    /\ get_study_group(comprehension_results[next_row].participant_id) # NULL
    /\ DropRaises(tail(ComprehensionColumns, ALL_COMPREHENSION_QUESTIONS_NUMBER),
                  drop_questions)
    /\ analysis' = [NotAnalyzed EXCEPT !.status = "KeyError"]
    /\ UNCHANGED <<redcap_data, comprehension_results, drop_questions, next_row,
                   participant_scores, wrong_answers, no_group_warnings>>
    /\ AcFrame

ScoreParticipant ==
    /\ InLoop
    /\ get_study_group(comprehension_results[next_row].participant_id) # NULL
    /\ ~DropRaises(tail(ComprehensionColumns, ALL_COMPREHENSION_QUESTIONS_NUMBER),
                   drop_questions)
    /\ LET participant_data == comprehension_results[next_row]
           participant_id == participant_data.participant_id
           participant_results == ParticipantResults(participant_data, drop_questions)
           participant_score == ParticipantScore(participant_results)
           corrected_comprehension_questions_number ==
               ALL_COMPREHENSION_QUESTIONS_NUMBER - Len(drop_questions)
       IN  /\ wrong_answers' = wrong_answers \o
                  WrongAnswersOf(participant_id, participant_results,
                                 participant_score,
                                 corrected_comprehension_questions_number)
           /\ participant_scores' = Append(participant_scores,
                  [participant_id |-> participant_id, score |-> participant_score])
    /\ next_row' = next_row + 1
    /\ UNCHANGED <<redcap_data, comprehension_results, drop_questions,
                   no_group_warnings, analysis>>
    /\ AcFrame

AfterLoop == analysis = NotAnalyzed /\ next_row > Len(comprehension_results)

\* the scores are written, the Mann-Whitney-U branch returns a p-value and
\* the wrong answers are returned with the plot
ReturnWrongAnswers ==
    /\ AfterLoop
    /\ \E result \in {"Non-inferiority assumed", "Cannot assume non-inferiority"} :
          analysis' = [status |-> "returned", scores_file |-> participant_scores,
                       returned |-> wrong_answers, result |-> result]
    /\ UNCHANGED <<redcap_data, comprehension_results, drop_questions, next_row,
                   participant_scores, wrong_answers, no_group_warnings>>
    /\ AcFrame

\* the scores are written, the t-test branch returns a pair and comparing
\* it with NON_INFERIORITY_ALPHA raises TypeError
CompareRaisesTypeError ==
    /\ AfterLoop
    /\ analysis' = [status |-> "TypeError", scores_file |-> participant_scores,
                    returned |-> <<>>, result |-> ""]
    /\ UNCHANGED <<redcap_data, comprehension_results, drop_questions, next_row,
                   participant_scores, wrong_answers, no_group_warnings>>
    /\ AcFrame

NextAnalysis ==
    \/ WarnNoStudyGroup
    \/ DropRaisesKeyError
    \/ ScoreParticipant
    \/ ReturnWrongAnswers
    \/ CompareRaisesTypeError

SpecAnalysis == InitAnalysis /\ [][NextAnalysis]_vars

(* ---- claims ---- *)
\* the questions that count, and the participant's row
RetainedQuestions ==
    Range(tail(ComprehensionColumns, ALL_COMPREHENSION_QUESTIONS_NUMBER))
        \ Range(drop_questions)

RowOfParticipant(participant_id) ==
    comprehension_results[CHOOSE i \in DOMAIN comprehension_results :
                             comprehension_results[i].participant_id = participant_id]

WrongAnswersOfParticipant(participant_id) ==
    SelectSeq(wrong_answers, LAMBDA entry : entry.participant_id = participant_id)

\* C29: every visited participant with a study group has one score row; the
\* score is the number of retained questions whose verdict is True, it is
\* between 0 and ten minus the number of dropped questions, and the
\* participant has one wrong-answer row for each retained question whose
\* verdict is not True and no other: ten minus the dropped minus the score.
C29_ScoreAndWrongAnswers ==
    component = "analysis" =>
        /\ \A i \in DOMAIN comprehension_results :
              (i < next_row /\ get_study_group(comprehension_results[i].participant_id) # NULL)
                 => Cardinality({k \in DOMAIN participant_scores :
                        participant_scores[k].participant_id
                            = comprehension_results[i].participant_id}) = 1
        /\ \A k \in DOMAIN participant_scores :
              LET id == participant_scores[k].participant_id
                  score == participant_scores[k].score
                  wrong == WrongAnswersOfParticipant(id)
                  not_true == {q \in RetainedQuestions : RowOfParticipant(id)[q] # "True"}
              IN  /\ get_study_group(id) # NULL
                  /\ score = Cardinality({q \in RetainedQuestions :
                                             RowOfParticipant(id)[q] = "True"})
                  /\ 0 <= score
                  /\ score <= ALL_COMPREHENSION_QUESTIONS_NUMBER - Len(drop_questions)
                  /\ Len(wrong) = ALL_COMPREHENSION_QUESTIONS_NUMBER
                                     - Len(drop_questions) - score
                  /\ {wrong[m].question : m \in DOMAIN wrong} = not_true
                  /\ Len(wrong) = Cardinality(not_true)
                  /\ \A m \in DOMAIN wrong :
                        wrong[m].answer = RowOfParticipant(id)[wrong[m].question]
        /\ analysis.status = "returned" => analysis.returned = wrong_answers

\* the call returned for a participant with one question dropped, one NaN
\* verdict and one False verdict among the retained
C29_Witness ==
    /\ component = "analysis"
    /\ analysis.status = "returned"
    /\ drop_questions = COMPREHENSION_REMOVED_QUESTIONS
    /\ \E k \in DOMAIN participant_scores :
          /\ participant_scores[k].participant_id = "p1"
          /\ participant_scores[k].score = 7
    /\ RowOfParticipant("p1")["q1"] = NULL
    /\ RowOfParticipant("p1")["q2"] = "False"
    /\ Len(WrongAnswersOfParticipant("p1")) = 2

====
